---- MODULE Spec2Model ----
(***************************************************************************)
(* Model of the traceroute_simulator namespace topology engine:            *)
(*   src/src/core/shared_registry.h    the shared-memory registry          *)
(*   src/src/core/hidden_mesh_setup.c  the hidden-mesh topology engine     *)
(*   src/src/core/network_setup.c      the secondary setup                 *)
(*   src/src/core/router_facts_loader.c  batch executor, restore helpers   *)
(*   src/src/utils/netns_reader.c     the namespace reader helper         *)
(*                                                                         *)
(* C strings are sequences of one-character strings, so that formatting    *)
(* (snprintf), truncation (strncpy) and parsing (atoi, sscanf) are         *)
(* computed and not assumed.                                               *)
(***************************************************************************)
EXTENDS Integers, Sequences, FiniteSets, TLC

(***************************************************************************)
(* Program constants.                                                      *)
(***************************************************************************)
MAX_ROUTERS == 1024
MAX_INTERFACES_PER_ROUTER == 64
MAX_BRIDGES == 2048
MAX_NAME_LEN == 64
MAX_CODE_LEN == 8
MAX_BRIDGE_NAME == 16
BRIDGE_FIELD_LEN == 32
SCAN_SLACK == 10
batch_size == 10

(***************************************************************************)
(* Bounds of the model.                                                    *)
(***************************************************************************)
\* number of router names the registry interface is called with
MaxRegNames == 2

\* number of SIGINTs sent to the processes of a run
MaxSigints == 2

\* number of times the program is run on the same host
MaxRuns == 2

\* number of arguments after the command name netns_reader is called with
MaxReaderArgs == 2

\* largest capacity a small batch buffer is created with
MaxCapacity == 96

\* number of batch_add_command calls on one batch context
MaxAdds == 4

(***************************************************************************)
(* C strings.                                                              *)
(***************************************************************************)
Min(a, b) == IF a < b THEN a ELSE b

Max(a, b) == IF a < b THEN b ELSE a

DigitChars == <<"0", "1", "2", "3", "4", "5", "6", "7", "8", "9">>

Digit(n) == DigitChars[n + 1]

IsDigit(c) == \E d \in 0..9 : DigitChars[d + 1] = c

DigitVal(c) == CHOOSE d \in 0..9 : DigitChars[d + 1] = c

\* %d of a non-negative int
RECURSIVE DecStr(_)
DecStr(n) == IF n < 10 THEN <<Digit(n)>> ELSE DecStr(n \div 10) \o <<Digit(n % 10)>>

\* %0<w>d / %0<w>u: zero-padded to at least w digits, never cut
RECURSIVE PadZero(_, _)
PadZero(s, w) == IF Len(s) >= w THEN s ELSE PadZero(<<"0">> \o s, w)

\* snprintf(buf, size, ...): at most size-1 characters are stored
Snprintf(s, size) == SubSeq(s, 1, Min(Len(s), size - 1))

\* strncpy(dst, src, n) into a zeroed field of n+1 bytes
Strncpy(s, n) == SubSeq(s, 1, Min(Len(s), n))

\* atoi: the value of the leading decimal digits, 0 when there are none
RECURSIVE AtoiAcc(_, _)
AtoiAcc(s, acc) ==
    IF s = <<>> \/ ~IsDigit(Head(s)) THEN acc
    ELSE AtoiAcc(Tail(s), acc * 10 + DigitVal(Head(s)))

Atoi(s) == AtoiAcc(s, 0)

\* the value a function that returns NULL hands back
NULL == <<"(null)">>

(***************************************************************************)
(* The shared registry (shm_registry_t).  A fixed array is held as the     *)
(* sequence of its slots up to the last one ever written; every slot       *)
(* beyond it is still zero (memset at creation).  Slot i of the C array is *)
(* element i + 1.                                                          *)
(***************************************************************************)
ZeroRouterEntry == [router_name |-> <<>>, router_code |-> <<>>, active |-> 0]

ZeroInterfaceEntry ==
    [router_code |-> <<>>, interface_name |-> <<>>, interface_code |-> <<>>, active |-> 0]

ZeroBridgeEntry == [bridge_name |-> <<>>, subnet |-> <<>>, created |-> 0, active |-> 0]

\* memset(reg, 0, size); reg->version = 1
ZeroRegistry ==
    [version |-> 1, router_count |-> 0, interface_count |-> 0, bridge_count |-> 0,
     routers |-> <<>>, interfaces |-> <<>>, bridges |-> <<>>,
     next_router_code |-> 0, next_interface_codes |-> <<>>]

\* the state of /tsim_registry when no such object exists; an object that exists has
\* version 1 from its creation on (lines 134-137, 280-283)
NoRegistry == [ZeroRegistry EXCEPT !.version = 0]

\* open_shared_registry(0): the object is opened, or created and zeroed when absent
OpenSharedRegistry(r) == IF r = NoRegistry THEN ZeroRegistry ELSE r

RouterSlot(r, i) == IF i + 1 <= Len(r.routers) THEN r.routers[i + 1] ELSE ZeroRouterEntry

\* the interface block of router index ridx, as the sequence of its written slots
IfBlock(r, ridx) == IF ridx + 1 <= Len(r.interfaces) THEN r.interfaces[ridx + 1] ELSE <<>>

InterfaceSlot(r, ridx, i) ==
    IF i + 1 <= Len(IfBlock(r, ridx)) THEN IfBlock(r, ridx)[i + 1] ELSE ZeroInterfaceEntry

BridgeSlot(r, i) == IF i + 1 <= Len(r.bridges) THEN r.bridges[i + 1] ELSE ZeroBridgeEntry

\* NextIfCode reading the counter of router 0 for every router
NextIfCodeOfFirst(r, ridx) ==
    IF 1 <= Len(r.next_interface_codes) THEN r.next_interface_codes[1] ELSE 0

\* next_interface_codes[router_idx]
NextIfCode(r, ridx) ==
    IF ridx + 1 <= Len(r.next_interface_codes) THEN r.next_interface_codes[ridx + 1] ELSE 0

\* s with element i + 1 set to e, the sequence grown with zero slots z as needed
RECURSIVE SetSlot(_, _, _, _)
SetSlot(s, i, e, z) ==
    IF i + 1 <= Len(s) THEN [s EXCEPT ![i + 1] = e]
    ELSE SetSlot(Append(s, IF Len(s) = i THEN e ELSE z), i, e, z)

\* the first index of a loop 0..hi-1 at which the test holds (S: those indices), or -1
FirstIndex(S) == IF S = {} THEN -1 ELSE CHOOSE i \in S : \A j \in S : i <= j

\* get_router_code_shm, first loop: the slot whose active entry carries the name, or -1
RouterScan(r, name) ==
    LET Hit(i) == RouterSlot(r, i).active = 1 /\ RouterSlot(r, i).router_name = name
    IN  FirstIndex({i \in 0..(Min(Min(MAX_ROUTERS, r.router_count + SCAN_SLACK),
                                   Len(r.routers)) - 1) : Hit(i)})

\* get_router_code_shm, second loop: the first inactive slot, or -1 when there is none
RouterFreeSlot(r) ==
    LET Free(i) == RouterSlot(r, i).active = 0
    IN  IF r.router_count >= MAX_ROUTERS THEN -1
        ELSE FirstIndex({i \in 0..(Min(MAX_ROUTERS, Len(r.routers) + 1) - 1) : Free(i)})

\* "r%03d" of the counter, in a field of MAX_CODE_LEN bytes
RouterCodeOf(n) == Snprintf(<<"r">> \o PadZero(DecStr(n), 3), MAX_CODE_LEN)

\* RouterFill with the counter left as it was
RouterFillNoIncrement(r, i, name) ==
    [r EXCEPT !.routers = SetSlot(r.routers, i,
                             [RouterSlot(r, i) EXCEPT
                                 !.router_name = Strncpy(name, MAX_NAME_LEN - 1),
                                 !.router_code = RouterCodeOf(r.next_router_code)],
                             ZeroRouterEntry)]

\* the writes of lines 176-177: name and code of slot i, the counter incremented
RouterFill(r, i, name) ==
    [r EXCEPT !.routers = SetSlot(r.routers, i,
                             [RouterSlot(r, i) EXCEPT
                                 !.router_name = Strncpy(name, MAX_NAME_LEN - 1),
                                 !.router_code = RouterCodeOf(r.next_router_code)],
                             ZeroRouterEntry),
              !.next_router_code = r.next_router_code + 1]

\* the writes of lines 178-179: the slot made active, the count incremented
RouterActivate(r, i) ==
    [r EXCEPT !.routers = SetSlot(r.routers, i, [RouterSlot(r, i) EXCEPT !.active = 1],
                                  ZeroRouterEntry),
              !.router_count = r.router_count + 1]

\* get_router_code_shm run without interleaving: [reg, slot]; slot -1 is the NULL return.
\* The value returned is a pointer to routers[slot].router_code.
GetRouterCodeShm(r, name) ==
    LET hit == RouterScan(r, name)
        free == RouterFreeSlot(r)
    IN  IF hit >= 0 THEN [reg |-> r, slot |-> hit]
        ELSE IF free < 0 THEN [reg |-> r, slot |-> -1]
        ELSE [reg |-> RouterActivate(RouterFill(r, free, name), free), slot |-> free]

\* "i%03d" of the per-router counter
InterfaceCodeOf(n) == Snprintf(<<"i">> \o PadZero(DecStr(n), 3), MAX_CODE_LEN)

\* get_interface_code_shm, lines 193-199: the router index recovered from the code, -1 for none
RouterIdxOfCode(code) ==
    IF code # <<>> /\ Head(code) = "r"
    THEN (IF Atoi(Tail(code)) >= MAX_ROUTERS THEN -1 ELSE Atoi(Tail(code)))
    ELSE -1

InterfaceScan(r, ridx, code, ifname) ==
    LET Hit(i) == /\ InterfaceSlot(r, ridx, i).active = 1
                  /\ InterfaceSlot(r, ridx, i).router_code = code
                  /\ InterfaceSlot(r, ridx, i).interface_name = ifname
    IN  FirstIndex({i \in 0..(Min(MAX_INTERFACES_PER_ROUTER, Len(IfBlock(r, ridx))) - 1) : Hit(i)})

InterfaceFreeSlot(r, ridx) ==
    LET Free(i) == InterfaceSlot(r, ridx, i).active = 0
    IN  FirstIndex({i \in 0..(Min(MAX_INTERFACES_PER_ROUTER, Len(IfBlock(r, ridx)) + 1) - 1) :
                       Free(i)})

\* the writes of lines 216-221
InterfaceCreate(r, ridx, i, code, ifname) ==
    LET e == [router_code |-> Strncpy(code, MAX_CODE_LEN - 1),
              interface_name |-> Strncpy(ifname, MAX_NAME_LEN - 1),
              interface_code |-> InterfaceCodeOf(NextIfCode(r, ridx)),
              active |-> 1]
    IN  [r EXCEPT !.interfaces = SetSlot(r.interfaces, ridx,
                                         SetSlot(IfBlock(r, ridx), i, e, ZeroInterfaceEntry),
                                         <<>>),
                  !.next_interface_codes = SetSlot(r.next_interface_codes, ridx,
                                                   NextIfCode(r, ridx) + 1, 0),
                  !.interface_count = r.interface_count + 1]

\* get_interface_code_shm: [reg, code]; code NULL is the NULL return
GetInterfaceCodeShm(r, code, ifname) ==
    LET ridx == RouterIdxOfCode(code)
        hit == InterfaceScan(r, ridx, code, ifname)
        free == InterfaceFreeSlot(r, ridx)
    IN  IF ridx = -1 THEN [reg |-> r, code |-> NULL]
        ELSE IF hit >= 0
        THEN [reg |-> r, code |-> InterfaceSlot(r, ridx, hit).interface_code]
        ELSE IF free < 0 THEN [reg |-> r, code |-> NULL]
        ELSE LET r2 == InterfaceCreate(r, ridx, free, code, ifname)
             IN  [reg |-> r2, code |-> InterfaceSlot(r2, ridx, free).interface_code]

\* clear_shared_registry
ClearSharedRegistry(r) == ZeroRegistry


\* register_bridge_shm, first loop: the slot of the active entry with that name, or -1
BridgeScan(r, bridge_name) ==
    LET Hit(i) == BridgeSlot(r, i).active = 1 /\ BridgeSlot(r, i).bridge_name = bridge_name
    IN  FirstIndex({i \in 0..(Min(Min(MAX_BRIDGES, r.bridge_count + SCAN_SLACK),
                                   Len(r.bridges)) - 1) : Hit(i)})

BridgeFreeSlot(r) ==
    LET Free(i) == BridgeSlot(r, i).active = 0
    IN  FirstIndex({i \in 0..(Min(MAX_BRIDGES, Len(r.bridges) + 1) - 1) : Free(i)})

\* register_bridge_shm with a first loop that takes the slot over again
RegisterBridgeShmReset(r, bridge_name, subnet) ==
    LET hit == BridgeScan(r, bridge_name)
        free == IF hit >= 0 THEN hit ELSE BridgeFreeSlot(r)
        e == [bridge_name |-> Strncpy(bridge_name, BRIDGE_FIELD_LEN - 1),
              subnet |-> Strncpy(subnet, BRIDGE_FIELD_LEN - 1),
              created |-> 0, active |-> 1]
    IN  IF free < 0 THEN [reg |-> r, idx |-> -1]
        ELSE [reg |-> [r EXCEPT !.bridges = SetSlot(r.bridges, free, e, ZeroBridgeEntry),
                                !.bridge_count = r.bridge_count + (IF hit >= 0 THEN 0 ELSE 1)],
              idx |-> free]

\* register_bridge_shm: [reg, idx]; idx -1 is "no space"
RegisterBridgeShm(r, bridge_name, subnet) ==
    LET hit == BridgeScan(r, bridge_name)
        free == BridgeFreeSlot(r)
        e == [bridge_name |-> Strncpy(bridge_name, BRIDGE_FIELD_LEN - 1),
              subnet |-> Strncpy(subnet, BRIDGE_FIELD_LEN - 1),
              created |-> 0, active |-> 1]
    IN  IF hit >= 0 THEN [reg |-> r, idx |-> hit]
        ELSE IF free < 0 THEN [reg |-> r, idx |-> -1]
        ELSE [reg |-> [r EXCEPT !.bridges = SetSlot(r.bridges, free, e, ZeroBridgeEntry),
                                !.bridge_count = r.bridge_count + 1],
              idx |-> free]

\* find_bridge_by_subnet: the slot of the first active entry with that subnet, or -1 (NULL)
FindBridgeBySubnet(r, subnet) ==
    LET Hit(i) == BridgeSlot(r, i).active = 1 /\ BridgeSlot(r, i).subnet = subnet
    IN  FirstIndex({i \in 0..(Min(MAX_BRIDGES, Len(r.bridges)) - 1) : Hit(i)})

\* setup_router_with_veth, lines 422-423: "%s%sr" / "%s%sh" into a 16-byte buffer
VethName(router_code, iface_code, suffix) == Snprintf(router_code \o iface_code \o <<suffix>>, 16)

(***************************************************************************)
(* Addresses, subnets and bridge names.  An address of the facts is the    *)
(* text of "ip address show" (for instance 10.1.1.2/24); the facts of the  *)
(* model carry prefix lengths 1..32.                                       *)
(***************************************************************************)
RECURSIVE Pow2(_)
Pow2(n) == IF n = 0 THEN 1 ELSE 2 * Pow2(n - 1)

\* the number of leading decimal digits of s
RECURSIVE DigitRun(_)
DigitRun(s) == IF s = <<>> \/ ~IsDigit(Head(s)) THEN 0 ELSE 1 + DigitRun(Tail(s))

Drop(s, n) == SubSeq(s, n + 1, Len(s))

\* strchr(s, c): the index of the first c in s, 0 when there is none
StrChr(s, c) == FirstIndex({i \in 1..Len(s) : s[i] = c}) + (IF \E i \in 1..Len(s) : s[i] = c THEN 0 ELSE 1)

\* inet_pton(AF_INET, s): four decimal numbers 0..255 of one to three digits, no
\* leading zero, separated by dots and followed by nothing: [ok, o]
RECURSIVE DottedQuad(_, _)
DottedQuad(s, acc) ==
    LET n == DigitRun(s)
        v == Atoi(s)
        rest == Drop(s, n)
    IN  IF n = 0 \/ n > 3 \/ v > 255 \/ (n > 1 /\ Head(s) = "0") THEN [ok |-> FALSE, o |-> <<>>]
        ELSE IF Len(acc) = 3
             THEN (IF rest = <<>> THEN [ok |-> TRUE, o |-> Append(acc, v)]
                   ELSE [ok |-> FALSE, o |-> <<>>])
        ELSE IF rest # <<>> /\ Head(rest) = "." THEN DottedQuad(Tail(rest), Append(acc, v))
        ELSE [ok |-> FALSE, o |-> <<>>]

InetPton(s) == DottedQuad(s, <<>>)

\* A 32-bit word is kept as its four octets, most significant first.
OctetAt(w, k) == IF k \in 1..4 THEN w[k] ELSE 0

\* x & y on octets
RECURSIVE BitAndAcc(_, _, _)
BitAndAcc(x, y, n) ==
    IF n = 0 THEN 0
    ELSE 2 * BitAndAcc(x \div 2, y \div 2, n - 1) + (IF x % 2 = 1 /\ y % 2 = 1 THEN 1 ELSE 0)

BitAnd32(x, y) == [k \in 1..4 |-> BitAndAcc(x[k], y[k], 8)]

\* (w << n) as unsigned int, for a shift count 0..31
Shl32(w, n) ==
    LET q == n \div 8
        r == n % 8
    IN  [k \in 1..4 |-> ((OctetAt(w, k + q) * Pow2(r)) % 256)
                         + (OctetAt(w, k + q + 1) \div Pow2(8 - r))]

AllOnes32 == <<255, 255, 255, 255>>

\* inet_ntoa
InetNtoa(o) ==
    DecStr(o[1]) \o <<".">> \o DecStr(o[2]) \o <<".">> \o DecStr(o[3]) \o <<".">> \o DecStr(o[4])

\* the prefix length of an address text: 24 without a slash, else atoi of what follows it
PrefixOf(ip) ==
    LET c == Strncpy(ip, 63)
        slash == StrChr(c, "/")
    IN  IF slash = 0 THEN 24 ELSE Atoi(Drop(c, slash))

\* the part of an address text before the slash
HostPartOf(ip) ==
    LET c == Strncpy(ip, 63)
        slash == StrChr(c, "/")
    IN  IF slash = 0 THEN c ELSE SubSeq(c, 1, slash - 1)

\* lines 283-302 and 446-460: the subnet of an address text, "network/prefix" in a
\* 32-byte buffer: [ok, subnet], ok FALSE when the text is no IPv4 address
SubnetOf(ip) ==
    LET pton == InetPton(HostPartOf(ip))
        prefix == PrefixOf(ip)
        mask == Shl32(AllOnes32, 32 - prefix)
    IN  IF ~pton.ok THEN [ok |-> FALSE, subnet |-> <<>>]
        ELSE [ok |-> TRUE,
              subnet |-> Snprintf(InetNtoa(BitAnd32(pton.o, mask))
                                  \o <<"/">> \o DecStr(prefix), 32)]

\* The words 0xFFFFFFFF << n can be, n the count 32 - prefix as an unsigned int:
\* the shift for a count 0..31; for any other count C leaves the shift undefined,
\* and the processor shifts by the low five bits of the count or gives zero
ShiftOutcomes(n) ==
    IF n \in 0..31 THEN {Shl32(AllOnes32, n)}
    ELSE {Shl32(AllOnes32, n % 32), <<0, 0, 0, 0>>}

\* lines 283-302 and 446-460 for an address text that is an IPv4 address, with the
\* mask the shift gave: the network and the text "network/prefix" in a 32-byte buffer
SubnetWith(ip, mask) ==
    LET network == BitAnd32(InetPton(HostPartOf(ip)).o, mask)
    IN  [network |-> network,
         subnet |-> Snprintf(InetNtoa(network) \o <<"/">> \o DecStr(PrefixOf(ip)), 32)]

\* sscanf(subnet, "%u.%u.%u.%u/%u"): the numbers converted, in order
RECURSIVE ScanFields(_, _, _)
ScanFields(s, seps, acc) ==
    LET n == DigitRun(s)
        rest == Drop(s, n)
    IN  IF n = 0 THEN acc
        ELSE IF seps = <<>> THEN Append(acc, Atoi(s))
        ELSE IF rest # <<>> /\ Head(rest) = Head(seps)
             THEN ScanFields(Tail(rest), Tail(seps), Append(acc, Atoi(s)))
        ELSE Append(acc, Atoi(s))

\* the name generate_bridge_name falls back to when the subnet does not scan:
\* "bridge" and a number taken from the clock
FallbackBridgeName == <<"b", "r", "i", "d", "g", "e", "?">>

\* GenerateBridgeName with the octets written without leading zeros
GenerateBridgeNameUnpadded(subnet) ==
    LET f == ScanFields(subnet, <<".", ".", ".", "/">>, <<>>)
    IN  IF Len(f) = 5
        THEN Snprintf(<<"b">> \o DecStr(f[1]) \o DecStr(f[2]) \o DecStr(f[3]) \o DecStr(f[4])
                      \o PadZero(DecStr(f[5]), 2), MAX_BRIDGE_NAME)
        ELSE FallbackBridgeName

\* generate_bridge_name into a buffer of MAX_BRIDGE_NAME bytes
GenerateBridgeName(subnet) ==
    LET f == ScanFields(subnet, <<".", ".", ".", "/">>, <<>>)
    IN  IF Len(f) = 5
        THEN Snprintf(<<"b">> \o PadZero(DecStr(f[1]), 3) \o PadZero(DecStr(f[2]), 3)
                      \o PadZero(DecStr(f[3]), 3) \o PadZero(DecStr(f[4]), 3)
                      \o PadZero(DecStr(f[5]), 2), MAX_BRIDGE_NAME)
        ELSE FallbackBridgeName

(***************************************************************************)
(* The kernel, as the commands of the engine see it.  kern is a record:    *)
(*   netns    the named network namespaces                                 *)
(*   links    the links: [id, ns, name, kind, peer, master, up, addrs,     *)
(*            mac, mtu]; ns = HOST_NS for the namespace the engine runs in *)
(*   routes, rules   the (namespace, command) pairs applied                *)
(*   ipsets, filters the (namespace, content) pairs loaded                 *)
(* Every command returns [k, ok]: the kernel after it and whether it       *)
(* exited 0.  A command that fails changes nothing.                        *)
(***************************************************************************)
HOST_NS == <<>>

HIDDEN_NS == <<"h", "i", "d", "d", "e", "n", "-", "m", "e", "s", "h">>

LO == <<"l", "o">>

NoName == <<>>

\* the broadcast argument written for an address without one
PLUS == <<"+">>

IFNAMSIZ == 16

EmptyKernel ==
    [netns |-> {}, links |-> {},
     routes |-> {}, rules |-> {}, ipsets |-> {}, filters |-> {},
     shm |-> {}, now |-> 0]

WordChars ==
    {"a", "b", "c", "d", "e", "f", "g", "h", "i", "j", "k", "l", "m", "n", "o", "p", "q",
     "r", "s", "t", "u", "v", "w", "x", "y", "z", "_",
     "0", "1", "2", "3", "4", "5", "6", "7", "8", "9"}

\* grep -w pat on one line: pat occurs in the line with no word character next to it
GrepW(pat, line) ==
    \E i \in 1..(Len(line) - Len(pat) + 1) :
        /\ SubSeq(line, i, i + Len(pat) - 1) = pat
        /\ (i = 1 \/ line[i - 1] \notin WordChars)
        /\ (i + Len(pat) > Len(line) \/ line[i + Len(pat)] \notin WordChars)

\* namespace_exists: "ip netns list | grep -w <name>" finds a line
NamespaceExists(k, ns) == \E line \in k.netns : GrepW(ns, line)

LinksIn(k, ns) == {l \in k.links : l.ns = ns}

HasLink(k, ns, name) == \E l \in LinksIn(k, ns) : l.name = name

TheLink(k, ns, name) == CHOOSE l \in LinksIn(k, ns) : l.name = name

NsUsable(k, ns) == ns = HOST_NS \/ ns \in k.netns

\* the identity of a link made under <name> in <ns>: the place and name it was made
\* with, and how many links were made with them before
LinkId(k, ns, name) ==
    <<ns, name, Cardinality({l \in k.links : l.id[1] = ns /\ l.id[2] = name})>>

NoLink == <<>>

NewLink(id, ns, name, kind, peer) ==
    [id |-> id, ns |-> ns, name |-> name, kind |-> kind, peer |-> peer,
     master |-> NoName, up |-> FALSE, addrs |-> {}, mac |-> "", mtu |-> 1500]

Fail(k) == [k |-> k, ok |-> FALSE]

Done(k) == [k |-> k, ok |-> TRUE]

\* ip netns add <ns>: the namespace comes with its loopback, down
NetnsAdd(k, ns) ==
    IF ns \in k.netns THEN Fail(k)
    ELSE Done([k EXCEPT !.netns = @ \cup {ns},
                        !.links = @ \cup {NewLink(LinkId(k, ns, LO), ns, LO, "loopback",
                                                   NoLink)}])

\* NetnsDel failing whatever the namespace
NetnsDelRefused(k, ns) == Fail(k)

\* ip netns del <ns>: the namespace goes, and with it its links, the veth peers of
\* these links wherever they are, its routes, rules, IP sets and filter tables
NetnsDel(k, ns) ==
    IF ns \notin k.netns THEN Fail(k)
    ELSE LET gone == {l \in k.links : l.ns = ns}
             peers == {m \in k.links : m.kind = "veth" /\ \E l \in gone : l.peer = m.id}
         IN  Done([k EXCEPT !.netns = k.netns \ {ns},
                            !.links = k.links \ (gone \cup peers),
                            !.routes = {e \in k.routes : e[1] # ns},
                            !.rules = {e \in k.rules : e[1] # ns},
                            !.ipsets = {e \in k.ipsets : e[1] # ns},
                            !.filters = {e \in k.filters : e[1] # ns}])

\* ip [netns exec <ns>] ip link add <name> type bridge|dummy
LinkAdd(k, ns, name, kind) ==
    IF ~NsUsable(k, ns) \/ HasLink(k, ns, name) \/ Len(name) >= IFNAMSIZ \/ name = <<>>
    THEN Fail(k)
    ELSE Done([k EXCEPT !.links = @ \cup {NewLink(LinkId(k, ns, name), ns, name, kind,
                                                   NoLink)}])

\* ip link add <a> type veth peer name <b>, in the host namespace
LinkAddVeth(k, a, b) ==
    IF HasLink(k, HOST_NS, a) \/ HasLink(k, HOST_NS, b) \/ a = b
       \/ Len(a) >= IFNAMSIZ \/ Len(b) >= IFNAMSIZ
    THEN Fail(k)
    ELSE Done([k EXCEPT !.links = @ \cup {NewLink(LinkId(k, HOST_NS, a), HOST_NS, a, "veth",
                                                   LinkId(k, HOST_NS, b)),
                                           NewLink(LinkId(k, HOST_NS, b), HOST_NS, b, "veth",
                                                   LinkId(k, HOST_NS, a))}])

ReplaceLink(k, old, new) == [k EXCEPT !.links = (@ \ {old}) \cup {new}]

\* ip link set <name> netns <to>, from the host namespace: the link arrives down,
\* with no master and no address
LinkSetNetns(k, name, to) ==
    IF ~HasLink(k, HOST_NS, name) \/ to \notin k.netns \/ HasLink(k, to, name) THEN Fail(k)
    ELSE LET l == TheLink(k, HOST_NS, name)
         IN  Done(ReplaceLink(k, l, [l EXCEPT !.ns = to, !.master = NoName,
                                                !.up = FALSE, !.addrs = {}]))

\* ip netns exec <ns> ip link set <name> master <bridge>
LinkSetMaster(k, ns, name, bridge) ==
    IF ~NsUsable(k, ns) \/ ~HasLink(k, ns, name) \/ ~HasLink(k, ns, bridge) THEN Fail(k)
    ELSE IF TheLink(k, ns, bridge).kind # "bridge" THEN Fail(k)
    ELSE LET l == TheLink(k, ns, name)
         IN  Done(ReplaceLink(k, l, [l EXCEPT !.master = bridge]))

\* ip netns exec <ns> ip link set <name> up
LinkSetUp(k, ns, name) ==
    IF ~NsUsable(k, ns) \/ ~HasLink(k, ns, name) THEN Fail(k)
    ELSE LET l == TheLink(k, ns, name)
         IN  Done(ReplaceLink(k, l, [l EXCEPT !.up = TRUE]))

\* ip netns exec <ns> ip link set <from> name <to>
LinkRename(k, ns, from, to) ==
    IF ~NsUsable(k, ns) \/ ~HasLink(k, ns, from) \/ HasLink(k, ns, to)
       \/ Len(to) >= IFNAMSIZ
    THEN Fail(k)
    ELSE LET l == TheLink(k, ns, from)
         IN  Done(ReplaceLink(k, l, [l EXCEPT !.name = to]))

\* ip netns exec <ns> ip link set <name> address <mac>
LinkSetMac(k, ns, name, mac) ==
    IF ~NsUsable(k, ns) \/ ~HasLink(k, ns, name) THEN Fail(k)
    ELSE LET l == TheLink(k, ns, name)
         IN  Done(ReplaceLink(k, l, [l EXCEPT !.mac = mac]))

\* ip netns exec <ns> ip link set <name> mtu <n>
LinkSetMtu(k, ns, name, mtu) ==
    IF ~NsUsable(k, ns) \/ ~HasLink(k, ns, name) THEN Fail(k)
    ELSE LET l == TheLink(k, ns, name)
         IN  Done(ReplaceLink(k, l, [l EXCEPT !.mtu = mtu]))

\* ip netns exec <ns> ip addr add <ip> brd <brd> dev <name>: "brd +" is refused for an
\* address that is not IPv4 ("Broadcast can be set only for IPv4 addresses"), an
\* address already on the device is refused
AddrAdd(k, ns, name, ip, brd) ==
    IF ~NsUsable(k, ns) \/ ~HasLink(k, ns, name) THEN Fail(k)
    ELSE IF ~InetPton(HostPartOf(ip)).ok /\ brd = PLUS THEN Fail(k)
    ELSE LET l == TheLink(k, ns, name)
         IN  IF ip \in l.addrs THEN Fail(k)
             ELSE Done(ReplaceLink(k, l, [l EXCEPT !.addrs = @ \cup {ip}]))

\* ip route add <route> in <ns>: refused when its device is not there, when the route
\* is there, and for a "proto kernel" route, which the kernel made with the address
RouteAdd(k, ns, route) ==
    IF ~NsUsable(k, ns) \/ ~HasLink(k, ns, route.device) \/ <<ns, route>> \in k.routes
       \/ route.protocol = "kernel"
    THEN Fail(k)
    ELSE Done([k EXCEPT !.routes = @ \cup {<<ns, route>>}])

\* ip rule add ... in <ns>
RuleAdd(k, ns, cmd) ==
    IF ~NsUsable(k, ns) \/ <<ns, cmd>> \in k.rules THEN Fail(k)
    ELSE Done([k EXCEPT !.rules = @ \cup {<<ns, cmd>>}])

\* ipset flush; ipset destroy in <ns>
IpsetDestroy(k, ns) ==
    IF ~NsUsable(k, ns) THEN Fail(k)
    ELSE Done([k EXCEPT !.ipsets = {e \in @ : e[1] # ns}])

\* ipset restore < content, in <ns>
IpsetRestore(k, ns, content) ==
    IF ~NsUsable(k, ns) THEN Fail(k)
    ELSE Done([k EXCEPT !.ipsets = @ \cup {<<ns, content>>}])

\* iptables-restore < content, in <ns>: the tables are replaced
IptablesRestore(k, ns, content) ==
    IF ~NsUsable(k, ns) THEN Fail(k)
    ELSE Done([k EXCEPT !.filters = {e \in @ : e[1] # ns} \cup {<<ns, content>>}])

(***************************************************************************)
(* The facts loaded from the raw facts directory (facts_context_t): a      *)
(* sequence of routers.  A char* that is NULL is the empty value.          *)
(***************************************************************************)
ETH0 == <<"e", "t", "h", "0">>

ETH1 == <<"e", "t", "h", "1">>

Address(ip, broadcast) == [ip |-> ip, broadcast |-> broadcast]

Interface(name, mac, mtu, up, addresses) ==
    [name |-> name, mac |-> mac, mtu |-> mtu, up |-> up, addresses |-> addresses]

\* a router as load_router_facts leaves it: the route lines are kept as raw commands;
\* the parsed-route list stays as init_router made it, empty (parse_routing_section,
\* the only caller of add_route, is never called)
Router(name, interfaces, routes, rules, ipset_save, iptables_save) ==
    [name |-> name, interfaces |-> interfaces,
     routes |-> <<>>, raw_route_commands |-> routes,
     rules |-> rules, ipset_save |-> ipset_save, iptables_save |-> iptables_save]

LoInterface == Interface(LO, "", 65536, TRUE, <<Address(<<"1", "2", "7", ".", "0", ".", "0", ".", "1", "/", "8">>, <<>>)>>)

\* two routers that share 10.1.1.0/24; the first has a loopback, a second interface,
\* a route, a rule, IP sets and packet filters
FactsShared ==
    << Router(<<"r", "1">>,
              << LoInterface,
                 Interface(ETH0, "02:00:00:00:01:01", 1500, TRUE,
                           <<Address(<<"1", "0", ".", "1", ".", "1", ".", "1", "/", "2", "4">>, <<"1", "0", ".", "1", ".", "1", ".", "2", "5", "5">>)>>),
                 Interface(ETH1, "", 9000, TRUE, <<Address(<<"1", "0", ".", "2", ".", "0", ".", "1", "/", "1", "6">>, <<>>)>>) >>,
              << [destination |-> "10.1.1.0/24", device |-> ETH0, protocol |-> "kernel"],
                 [destination |-> "default", device |-> ETH0, protocol |-> ""] >>,
              << [priority |-> 100, table |-> <<"1", "0", "0">>] >>,
              "create s1 hash:ip", "*filter -A FORWARD -m set --match-set s1 src -j DROP"),
       Router(<<"r", "2">>,
              << Interface(ETH0, "", 1500, TRUE, <<Address(<<"1", "0", ".", "1", ".", "1", ".", "2", "/", "2", "4">>, <<"1", "0", ".", "1", ".", "1", ".", "2", "5", "5">>)>>) >>,
              <<>>, <<>>, "", "") >>

\* one router whose name is a word of the hidden namespace's name
FactsMesh ==
    << Router(<<"m", "e", "s", "h">>,
              << Interface(ETH0, "", 1500, TRUE, <<Address(<<"1", "0", ".", "3", ".", "0", ".", "1", "/", "2", "4">>, <<>>)>>) >>,
              <<>>, <<>>, "", "") >>

\* one router whose first interface carries an IPv4 and a global IPv6 address
FactsInet6 ==
    << Router(<<"r", "1">>,
              << Interface(ETH0, "", 1500, TRUE,
                           <<Address(<<"1", "0", ".", "1", ".", "1", ".", "1", "/", "2", "4">>, <<"1", "0", ".", "1", ".", "1", ".", "2", "5", "5">>), Address(<<"f", "d", "0", "0", ":", ":", "1", "/", "6", "4">>, <<>>)>>),
                 Interface(ETH1, "", 1500, TRUE, <<Address(<<"1", "0", ".", "2", ".", "0", ".", "1", "/", "1", "6">>, <<>>)>>) >>,
              <<>>, <<>>, "", "") >>

\* one more router than a worker child is given: r01, r02, ...; the first router of
\* each child has an interface
FactsTwoChildren ==
    [n \in 1..(batch_size + 1) |->
        Router(<<"r">> \o PadZero(DecStr(n), 2),
               IF (n - 1) % batch_size = 0
               THEN << Interface(ETH0, "", 1500, TRUE,
                                 <<Address(<<"1", "0", ".", "9", ".", "0", ".">> \o DecStr(n)
                                           \o <<"/", "2", "4">>, <<>>)>>) >>
               ELSE <<>>,
               <<>>, <<>>, "", "")]

\* one router with one interface more than a block of the registry holds: e1 on
\* 10.8.0.0/24, the others without an address
FactsWide ==
    << Router(<<"w">>,
              [n \in 1..(MAX_INTERFACES_PER_ROUTER + 1) |->
                  Interface(<<"e">> \o DecStr(n), "", 1500, TRUE,
                            IF n = 1
                            THEN <<Address(<<"1", "0", ".", "8", ".", "0", ".", "1", "/", "2", "4">>, <<>>)>>
                            ELSE <<>>)],
              <<>>, <<>>, "", "") >>

\* the raw facts directories of the model, by name
FactsDirs ==
    [empty |-> <<>>, shared |-> FactsShared, mesh |-> FactsMesh, inet6 |-> FactsInet6,
     twochildren |-> FactsTwoChildren, wide |-> FactsWide]

(***************************************************************************)
(* The batch script (batch_context_t): "#!/bin/bash", "set -e", then one   *)
(* "ip netns exec <ns> <command>" per line.  A command is kept as          *)
(* [op, name, arg, ortrue]; ortrue is the "|| true" suffix.                *)
(***************************************************************************)
Cmd(op, name, arg, ortrue) == [op |-> op, name |-> name, arg |-> arg, ortrue |-> ortrue]

\* one line of the script run by bash: [k, ok]
RunCmd(k, ns, c) ==
    CASE c.op = "ipset_flush"   -> IF NsUsable(k, ns) THEN Done(k) ELSE Fail(k)
      [] c.op = "ipset_destroy" -> IpsetDestroy(k, ns)
      [] c.op = "rename"        -> LinkRename(k, ns, c.name, c.arg)
      [] c.op = "mac"           -> LinkSetMac(k, ns, c.name, c.arg)
      [] c.op = "addr"          -> AddrAdd(k, ns, c.name, c.arg.ip, c.arg.brd)
      [] c.op = "up"            -> LinkSetUp(k, ns, c.name)
      [] c.op = "mtu"           -> LinkSetMtu(k, ns, c.name, c.arg)
      [] c.op = "dummy"         -> LinkAdd(k, ns, c.name, "dummy")
      [] c.op = "route"         -> RouteAdd(k, ns, c.arg)
      [] c.op = "rule"          -> RuleAdd(k, ns, c.arg)
      [] c.op = "sysctl"        -> IF NsUsable(k, ns) THEN Done(k) ELSE Fail(k)

\* the effect of a command that succeeded, as the ordering claims class it
EventOf(c) ==
    IF c.op \in {"addr", "route", "rule"}
    THEN <<[class |-> c.op, iface |-> IF c.op = "addr" THEN c.name ELSE NoName]>>
    ELSE <<>>

\* batch_execute / batch_execute_verbose: bash runs the lines in order and, under
\* "set -e", stops at the first failing line that has no "|| true": [k, rc, ev]
RECURSIVE BatchExecute(_, _, _, _)
BatchExecute(k, ns, cmds, ev) ==
    IF cmds = <<>> THEN [k |-> k, rc |-> 0, ev |-> ev]
    ELSE IF Len(cmds) = 1
    THEN LET r == RunCmd(k, ns, Head(cmds))
         IN  IF r.ok THEN [k |-> r.k, rc |-> 0, ev |-> ev \o EventOf(Head(cmds))]
             ELSE IF Head(cmds).ortrue THEN [k |-> k, rc |-> 0, ev |-> ev]
             ELSE [k |-> k, rc |-> 1, ev |-> ev]
    ELSE \* the first half of the lines, then, unless bash stopped, the second half
         LET half == Len(cmds) \div 2
             first == BatchExecute(k, ns, SubSeq(cmds, 1, half), ev)
         IN  IF first.rc # 0 THEN first
             ELSE BatchExecute(first.k, ns, SubSeq(cmds, half + 1, Len(cmds)), first.ev)

\* the lines queued for one interface: MAC, addresses, up, MTU
InterfaceCmds(iface) ==
    (IF iface.mac # "" THEN <<Cmd("mac", iface.name, iface.mac, FALSE)>> ELSE <<>>)
    \o [a \in 1..Len(iface.addresses) |->
           Cmd("addr", iface.name,
               [ip |-> iface.addresses[a].ip,
                brd |-> IF iface.addresses[a].broadcast # <<>>
                        THEN iface.addresses[a].broadcast ELSE PLUS],
               FALSE)]
    \o (IF iface.up THEN <<Cmd("up", iface.name, <<>>, FALSE)>> ELSE <<>>)
    \o (IF iface.mtu # 0 /\ iface.mtu # 1500
        THEN <<Cmd("mtu", iface.name, iface.mtu, FALSE)>> ELSE <<>>)

\* RestoreSets with the packet filters restored before the IP sets
RestoreSetsFiltersFirst(k, ns, router) ==
    LET b == IF router.iptables_save # "" THEN IptablesRestore(k, ns, router.iptables_save)
             ELSE Fail(k)
        a == IF router.ipset_save # "" THEN IpsetRestore(b.k, ns, router.ipset_save)
             ELSE Fail(b.k)
    IN  [k |-> a.k,
         ev |-> (IF b.ok THEN <<[class |-> "iptables", iface |-> NoName]>> ELSE <<>>)
                \o (IF a.ok THEN <<[class |-> "ipset", iface |-> NoName]>> ELSE <<>>)]

\* apply_ipset_with_shm then apply_iptables_with_shm, each skipped for empty content
RestoreSets(k, ns, router) ==
    LET a == IF router.ipset_save # "" THEN IpsetRestore(k, ns, router.ipset_save)
             ELSE Fail(k)
        b == IF router.iptables_save # "" THEN IptablesRestore(a.k, ns, router.iptables_save)
             ELSE Fail(a.k)
    IN  [k |-> b.k,
         ev |-> (IF a.ok THEN <<[class |-> "ipset", iface |-> NoName]>> ELSE <<>>)
                \o (IF b.ok THEN <<[class |-> "iptables", iface |-> NoName]>> ELSE <<>>)]

(***************************************************************************)
(* The hidden-mesh engine: the steps of create_hidden_infrastructure and   *)
(* setup_router_with_veth as functions of the kernel and the registry.     *)
(***************************************************************************)
\* create_namespace_safe_verbose: [k, rc]
CreateNamespaceSafe(k, ns) ==
    IF NamespaceExists(k, ns) THEN [k |-> k, rc |-> 0]
    ELSE LET a == NetnsAdd(k, ns)
         IN  IF ~a.ok THEN [k |-> k, rc |-> -1]
             ELSE [k |-> LinkSetUp(a.k, ns, LO).k, rc |-> 0]

\* the address texts of the facts, in the order of the three loops of lines 275-281
RECURSIVE Flatten(_)
Flatten(ss) == IF ss = <<>> THEN <<>> ELSE Head(ss) \o Flatten(Tail(ss))

AddressTexts(iface) == [a \in 1..Len(iface.addresses) |-> iface.addresses[a].ip]

AllAddressTexts(f) ==
    Flatten([r \in 1..Len(f) |->
                Flatten([j \in 1..Len(f[r].interfaces) |-> AddressTexts(f[r].interfaces[j])])])

\* lines 283-316: the subnet list after the addresses ips
RECURSIVE ExtractSubnets(_, _)
ExtractSubnets(ips, subnets) ==
    IF ips = <<>> THEN subnets
    ELSE LET sn == SubnetOf(Head(ips))
             found == \E s \in 1..Len(subnets) : subnets[s] = sn.subnet
         IN  ExtractSubnets(Tail(ips),
                            IF sn.ok /\ ~found /\ Len(subnets) < MAX_BRIDGES
                            THEN Append(subnets, sn.subnet) ELSE subnets)

\* BridgeIteration with the bridge never made
BridgeIterationNoLink(k, r, subnet) == [k |-> k, reg |-> r, made |-> 0]

\* lines 335-367, one iteration of the bridge loop: [k, reg, made]
BridgeIteration(k, r, subnet) ==
    LET bridge_name == GenerateBridgeName(subnet)
        res == RegisterBridgeShm(r, bridge_name, subnet)
        add == LinkAdd(k, HIDDEN_NS, bridge_name, "bridge")
    IN  IF res.idx < 0 \/ BridgeSlot(res.reg, res.idx).created # 0
        THEN [k |-> k, reg |-> res.reg, made |-> 0]
        ELSE IF ~add.ok THEN [k |-> k, reg |-> res.reg, made |-> 0]
        ELSE [k |-> LinkSetUp(add.k, HIDDEN_NS, bridge_name).k,
              reg |-> [res.reg EXCEPT
                          !.bridges = SetSlot(res.reg.bridges, res.idx,
                                         [BridgeSlot(res.reg, res.idx) EXCEPT !.created = 1],
                                         ZeroBridgeEntry)],
              made |-> 1]

\* lines 445-478: the subnet of the first address of the interface that is IPv4, <<>>
\* when it has none
FirstInetSubnet(ips) ==
    LET S == {a \in 1..Len(ips) : SubnetOf(ips[a]).ok}
    IN  IF S = {} THEN <<>> ELSE SubnetOf(ips[FirstIndex(S)]).subnet

\* lines 462-475: the hidden end attached to the bridge of the subnet, brought up
AttachToBridge(k, r, veth_hidden, subnet) ==
    LET b == IF subnet = <<>> THEN -1 ELSE FindBridgeBySubnet(r, subnet)
    IN  IF b < 0 THEN k
        ELSE LinkSetUp(LinkSetMaster(k, HIDDEN_NS, veth_hidden,
                                     BridgeSlot(r, b).bridge_name).k,
                       HIDDEN_NS, veth_hidden).k

\* lines 419-507, one iteration of the interface loop for an interface that is not lo:
\* [k, reg, cmds, ev, made, icode]
VethIteration(k, r, ns, router_code, iface) ==
    LET gi == GetInterfaceCodeShm(r, router_code, iface.name)
        veth_router == VethName(router_code, gi.code, "r")
        veth_hidden == VethName(router_code, gi.code, "h")
        add == LinkAddVeth(k, veth_router, veth_hidden)
        mr == LinkSetNetns(add.k, veth_router, ns)
        mh == LinkSetNetns(mr.k, veth_hidden, HIDDEN_NS)
    IN  IF ~add.ok
        THEN [k |-> k, reg |-> gi.reg, cmds |-> <<>>, ev |-> <<>>, made |-> 0,
              icode |-> gi.code]
        ELSE [k |-> AttachToBridge(mh.k, gi.reg, veth_hidden,
                                   FirstInetSubnet(AddressTexts(iface))),
              reg |-> gi.reg,
              cmds |-> <<Cmd("rename", veth_router, iface.name, FALSE)>>
                       \o InterfaceCmds(iface),
              ev |-> <<[class |-> "veth", iface |-> iface.name]>>
                     \o (IF mr.ok THEN <<[class |-> "move", iface |-> iface.name]>> ELSE <<>>)
                     \o (IF mh.ok THEN <<[class |-> "move", iface |-> iface.name]>> ELSE <<>>),
              made |-> 1, icode |-> gi.code]

\* lines 511-559: the route and rule lines, each with "|| true"
RouteRuleCmds(router) ==
    [i \in 1..Len(router.raw_route_commands) |->
        Cmd("route", NoName, router.raw_route_commands[i], TRUE)]
    \o [i \in 1..Len(router.rules) |-> Cmd("rule", NoName, router.rules[i], TRUE)]

(***************************************************************************)
(* netns_reader (src/src/utils/netns_reader.c): the helper that runs one   *)
(* whitelisted read-only command inside a namespace.  Command names and    *)
(* paths are compared whole (strcmp) and are strings; the namespace name   *)
(* and the arguments are C strings, searched and parsed character by       *)
(* character.                                                              *)
(***************************************************************************)
MAX_ARGS == 32

\* the NULL get_command_path returns for a name the table does not hold
NoPath == ""

allowed_commands ==
    <<<<"ip", "/usr/sbin/ip">>,
      <<"iptables-save", "/usr/sbin/iptables-save">>,
      <<"ip6tables-save", "/usr/sbin/ip6tables-save">>,
      <<"ipset", "/usr/sbin/ipset">>,
      <<"ss", "/usr/bin/ss">>,
      <<"netstat", "/usr/bin/netstat">>>>

W_table == <<"t", "a", "b", "l", "e">>

allowed_ip_args ==
    {<<"a", "d", "d", "r">>, <<"s", "h", "o", "w">>, <<"r", "o", "u", "t", "e">>, W_table,
     <<"r", "u", "l", "e">>, <<"l", "i", "n", "k">>, <<"-", "j">>,
     <<"-", "j", "s", "o", "n">>, <<"-", "d", "e", "t", "a", "i", "l", "s">>}

allowed_ipset_args ==
    {<<"l", "i", "s", "t">>, <<"-", "n">>, <<"-", "n", "a", "m", "e">>}

\* a lookup without the table: every name is taken for a program of /usr/sbin
get_command_path_any(cmd) == "/usr/sbin/" \o cmd

\* the first entry of the table whose name is cmd
get_command_path(cmd) ==
    LET hits == {i \in 1..Len(allowed_commands) : allowed_commands[i][1] = cmd}
    IN IF hits = {} THEN NoPath
       ELSE allowed_commands[CHOOSE i \in hits : \A j \in hits : i <= j][2]

\* the index of the first character of s from i on that is not in set
RECURSIVE SkipChars(_, _, _)
SkipChars(s, i, set) ==
    IF i <= Len(s) /\ s[i] \in set THEN SkipChars(s, i + 1, set) ELSE i

\* strtol(s, &endptr, 10): the index endptr is left at.  White space and one
\* sign are skipped, then the digits; with no digit at all endptr is s itself
StrtolEnd(s) ==
    LET start == SkipChars(s, 1, {" ", "\t", "\n"})
        first == IF start <= Len(s) /\ s[start] \in {"+", "-"} THEN start + 1 ELSE start
        last == SkipChars(s, first, {DigitChars[d] : d \in 1..10})
    IN IF last = first THEN 1 ELSE last

\* validate_args(cmd, argv, argc): argv are the arguments after the command
validate_args(cmd, args, argc) ==
    IF cmd = "ip"
    THEN \A i \in 1..argc :
            \/ args[i] \in allowed_ip_args
            \/ /\ i > 1
               /\ args[i - 1] = W_table
               /\ StrtolEnd(args[i]) = Len(args[i]) + 1    \* *endptr == '\0'
    ELSE IF cmd = "ipset"
    THEN \A i \in 1..argc : args[i] \in allowed_ipset_args
    ELSE IF cmd \in {"iptables-save", "ip6tables-save"}
    THEN ~(argc > 0)
    ELSE TRUE

\* strstr(s, t) != NULL
StrStr(s, t) ==
    \E i \in 1..(Len(s) - Len(t) + 1) : SubSeq(s, i, i + Len(t) - 1) = t

\* the namespaces of the host under /var/run/netns
NetnsFiles == {<<"r", "1">>}

\* stat("/var/run/netns/<name>") succeeds: a namespace, or the directory itself
StatOk(nsname) == nsname \in NetnsFiles \cup {<<>>, <<".">>}

validate_namespace(nsname) ==
    /\ ~(StrStr(nsname, <<"/">>) \/ StrStr(nsname, <<".", ".">>))
    /\ StatOk(nsname)

W_list == <<"-", "-", "l", "i", "s", "t">>

\* the helper before it is started
NoReader ==
    [pc |-> "none", nsname |-> <<>>, cmd |-> "", args |-> <<>>, cmd_path |-> NoPath,
     exec_argv |-> <<>>, calls |-> <<>>, err |-> "", code |-> 0]

\* exit(code) or return code from main, after the message err on stderr
ReaderExit(r, err, code) == [r EXCEPT !.pc = "exited", !.err = err, !.code = code]

(***************************************************************************)
(* The batch script buffer (router_facts_loader.c, lines 1106-1204).       *)
(***************************************************************************)
DEFAULT_CAPACITY == 1024 * 1024

FULL_CMD_SIZE == 8192

\* "#!/bin/bash\nset -e\n"
BatchHeader ==
    <<"#", "!", "/", "b", "i", "n", "/", "b", "a", "s", "h", "\n",
      "s", "e", "t", " ", "-", "e", "\n">>

\* no batch context
NoBatch ==
    [st |-> "none", script_buffer |-> <<>>, buffer_size |-> 0, buffer_capacity |-> 0,
     rc |-> 0, calls |-> 0, last |-> <<>>, added |-> <<>>,
     queued |-> <<>>, ran |-> <<>>, failed |-> {}, status |-> 0]

\* create_batch_context(initial_size): the buffer holds the header
create_batch_context(initial_size) ==
    [NoBatch EXCEPT !.st = "open",
                    !.buffer_capacity = IF initial_size # 0 THEN initial_size
                                        ELSE DEFAULT_CAPACITY,
                    !.script_buffer = BatchHeader,
                    !.buffer_size = Len(BatchHeader)]

\* snprintf(full_cmd, sizeof(full_cmd), "ip netns exec %s %s\n" or "%s\n", ...)
FullCmd(namespace, command) ==
    Snprintf((IF namespace # NULL
              THEN <<"i", "p", " ", "n", "e", "t", "n", "s", " ", "e", "x", "e", "c", " ">>
                   \o namespace \o <<" ">>
              ELSE <<>>) \o command \o <<"\n">>, FULL_CMD_SIZE)

\* batch_add_command without the capacity check: the line is always stored
batch_add_command_unchecked(ctx, namespace, command) ==
    LET full_cmd == FullCmd(namespace, command)
    IN [ctx EXCEPT !.script_buffer = SubSeq(ctx.script_buffer, 1, ctx.buffer_size) \o full_cmd,
                   !.buffer_size = ctx.buffer_size + Len(full_cmd),
                   !.rc = 0,
                   !.added = Append(ctx.added, full_cmd)]

\* batch_add_command(ctx, namespace, command): rc is what it returns
batch_add_command(ctx, namespace, command) ==
    LET full_cmd == FullCmd(namespace, command)
        cmd_len == Len(full_cmd)
    IN IF ctx.buffer_size + cmd_len + 1 > ctx.buffer_capacity
       THEN [ctx EXCEPT !.rc = -1]
       ELSE batch_add_command_unchecked(ctx, namespace, command)

(***************************************************************************)
(* The shared-memory object of a batch context (create_batch_context,      *)
(* free_batch_context).  k.shm are the names under /dev/shm, k.now is the  *)
(* clock in seconds: the processes run within one second, the case in      *)
(* which the time in the name tells no two contexts apart.                 *)
(***************************************************************************)
\* a name made of the time only
BatchShmNameOfTime(pid, t) ==
    Snprintf(<<"/", "t", "s", "i", "m", "_", "b", "a", "t", "c", "h", "_">> \o DecStr(t), 256)

\* snprintf(shm_name, sizeof(shm_name), "/tsim_batch_%d_%ld", getpid(), (long)time(NULL))
BatchShmName(pid, t) ==
    Snprintf(<<"/", "t", "s", "i", "m", "_", "b", "a", "t", "c", "h", "_">>
             \o DecStr(pid) \o <<"_">> \o DecStr(t), 256)

\* shm_open(name, O_CREAT | O_RDWR, 0600)
ShmCreate(k, name) == [k EXCEPT !.shm = @ \cup {name}]

\* shm_unlink(name)
ShmUnlink(k, name) == [k EXCEPT !.shm = @ \ {name}]

(***************************************************************************)
(* The facts loader (src/src/core/router_facts_loader.c).  The content of  *)
(* a facts file and everything cut out of it are C strings; a pointer into *)
(* the content is the index of the character it points at, and 0 is the    *)
(* null pointer a failed search returns.                                   *)
(***************************************************************************)
\* strstr(s + from - 1, t): where t first occurs in s at or after index from, or 0
StrStrAt(s, t, from) ==
    LET hits == {i \in from..(Len(s) - Len(t) + 1) : SubSeq(s, i, i + Len(t) - 1) = t}
    IN  IF hits = {} THEN 0 ELSE CHOOSE i \in hits : \A j \in hits : i <= j

\* the white space find_section trims from the end of a body
TrimChars == {"\n", "\r", " ", "\t"}

\* isspace
SpaceChars == {" ", "\t", "\n", "\r", "\f"}

\* lines 254-257: end moves back over trailing white space, never past start
RECURSIVE TrimEnd(_, _, _)
TrimEnd(content, start, end) ==
    IF end > start /\ content[end - 1] \in TrimChars THEN TrimEnd(content, start, end - 1) ELSE end

\* find_section: the body of the named section, the empty string for an empty body,
\* NULL when the section, its line of dashes or its end is missing
find_section(content, section_name) ==
    LET start_marker == Snprintf(<<"=", "=", "=", " ", "T", "S", "I", "M", "_", "S", "E", "C", "T", "I", "O", "N", "_", "S", "T", "A", "R", "T", ":">> \o section_name \o <<" ", "=", "=", "=">>, 256)
        end_marker == Snprintf(<<"=", "=", "=", " ", "T", "S", "I", "M", "_", "S", "E", "C", "T", "I", "O", "N", "_", "E", "N", "D", ":">> \o section_name \o <<" ", "=", "=", "=">>, 256)
        marker == StrStrAt(content, start_marker, 1)
        dashes == StrStrAt(content, <<"-", "-", "-">>, marker)
        \* start += 4: past the dashes and the newline after them
        start == dashes + 4
        exit_code == StrStrAt(content, <<"\n", "E", "X", "I", "T", "_", "C", "O", "D", "E", ":">>, start)
        end_mark == StrStrAt(content, end_marker, start)
        end == IF exit_code # 0 /\ (end_mark = 0 \/ exit_code < end_mark) THEN exit_code ELSE end_mark
    IN  IF marker = 0 \/ dashes = 0 \/ end = 0 THEN NULL
        ELSE SubSeq(content, start, TrimEnd(content, start, end) - 1)

\* strtok(s, delim) to the end: the non-empty runs of s between delimiters, in order
RECURSIVE StrTok(_, _, _, _)
StrTok(s, delim, cur, acc) ==
    IF s = <<>> THEN (IF cur = <<>> THEN acc ELSE Append(acc, cur))
    ELSE IF Head(s) \in delim
    THEN StrTok(Tail(s), delim, <<>>, IF cur = <<>> THEN acc ELSE Append(acc, cur))
    ELSE StrTok(Tail(s), delim, Append(cur, Head(s)), acc)

\* lines 953-955: leading white space skipped, trailing white space cut back to
\* the first character
RECURSIVE TrimLine(_)
TrimLine(line) ==
    IF line # <<>> /\ Head(line) \in SpaceChars THEN TrimLine(Tail(line))
    ELSE IF Len(line) > 1 /\ line[Len(line)] \in SpaceChars THEN TrimLine(SubSeq(line, 1, Len(line) - 1))
    ELSE line

\* lines 930-937: the table name after the search string: the characters up to a
\* space, an '=' or the end of the content, 255 at most
RECURSIVE TableNameAt(_, _, _)
TableNameAt(content, pos, i) ==
    IF pos + i <= Len(content) /\ content[pos + i] \notin {" ", "="} /\ i < 255
    THEN <<content[pos + i]>> \o TableNameAt(content, pos, i + 1)
    ELSE <<>>

\* lines 947-993: one command per line of the section that is not an EXIT_CODE
\* line and is not blank, the table named before the route unless it is main
RouteCommands(table_name, section) ==
    LET lines == StrTok(section, {"\n"}, <<>>, <<>>)
        Kept(l) == ~StrStr(l, <<"E", "X", "I", "T", "_", "C", "O", "D", "E", ":">>) /\ TrimLine(l) # <<>>
        kept == SelectSeq(lines, Kept)
    IN  [i \in 1..Len(kept) |->
            Snprintf(IF table_name # <<"m", "a", "i", "n">>
                     THEN <<"i", "p", " ", "r", "o", "u", "t", "e", " ", "a", "d", "d", " ", "t", "a", "b", "l", "e", " ">> \o table_name \o <<" ">> \o TrimLine(kept[i])
                     ELSE <<"i", "p", " ", "r", "o", "u", "t", "e", " ", "a", "d", "d", " ">> \o TrimLine(kept[i]), 1024)]

\* lines 923-1003: every occurrence of the search string names a table, and the
\* first section of that name gives the table's commands
RECURSIVE ScanRoutingTables(_, _, _)
ScanRoutingTables(content, pos, acc) ==
    LET search == <<"=", "=", "=", " ", "T", "S", "I", "M", "_", "S", "E", "C", "T", "I", "O", "N", "_", "S", "T", "A", "R", "T", ":", "r", "o", "u", "t", "i", "n", "g", "_", "t", "a", "b", "l", "e", "_">>
        hit == StrStrAt(content, search, pos)
        at == hit + Len(search)
        table_name == TableNameAt(content, at, 0)
        section == IF table_name = <<>> THEN NULL
                   ELSE find_section(content, Snprintf(<<"r", "o", "u", "t", "i", "n", "g", "_", "t", "a", "b", "l", "e", "_">> \o table_name, 256))
    IN  IF hit = 0 THEN acc
        ELSE ScanRoutingTables(content, at + 1,
                 acc \o (IF section = NULL THEN <<>> ELSE RouteCommands(table_name, section)))

\* sscanf(s, "%s", buf): the first word of s
RECURSIVE ScanWord(_)
ScanWord(s) ==
    LET UpToSpace(t) == SubSeq(t, 1, FirstIndex({i \in 0..Len(t) : i = Len(t) \/ t[i + 1] \in SpaceChars}))
    IN  IF s # <<>> /\ Head(s) \in SpaceChars THEN ScanWord(Tail(s)) ELSE UpToSpace(s)

HexChars == <<"0", "1", "2", "3", "4", "5", "6", "7", "8", "9", "a", "b", "c", "d", "e", "f">>

IsHex(c) == \E d \in 0..15 : HexChars[d + 1] = c

HexVal(c) == CHOOSE d \in 0..15 : HexChars[d + 1] = c

RECURSIVE HexAcc(_, _)
HexAcc(s, acc) ==
    IF s = <<>> \/ ~IsHex(Head(s)) THEN acc ELSE HexAcc(Tail(s), acc * 16 + HexVal(Head(s)))

\* sscanf(s, "0x%x", &field) on a zeroed field: the hexadecimal number after a
\* literal 0x, 0 when s does not begin with 0x
ScanHex(s) == IF Len(s) >= 2 /\ SubSeq(s, 1, 2) = <<"0", "x">> THEN HexAcc(Drop(s, 2), 0) ELSE 0

\* %x of a positive int
RECURSIVE HexStr(_)
HexStr(n) == IF n < 16 THEN <<HexChars[n + 1]>> ELSE HexStr(n \div 16) \o <<HexChars[(n % 16) + 1]>>

\* a rule_t as calloc leaves it
ZeroRule ==
    [priority |-> 0, from |-> NULL, to |-> NULL, fwmark |-> 0, tos |-> 0,
     iif |-> NULL, oif |-> NULL, table |-> NULL, sport |-> 0, dport |-> 0]

\* what follows the first occurrence of key in line, NULL when key does not occur
AfterKey(line, key) ==
    LET at == StrStrAt(line, key, 1)
    IN  IF at = 0 THEN NULL ELSE Drop(line, at + Len(key) - 1)

\* lines 773-855: the rule of one line that begins with a priority
ParseRuleLine(line) ==
    LET Word(key) == IF AfterKey(line, key) = NULL THEN NULL ELSE ScanWord(AfterKey(line, key))
        Hex(key) == IF AfterKey(line, key) = NULL THEN 0 ELSE ScanHex(AfterKey(line, key))
        Num(key) == IF AfterKey(line, key) = NULL THEN 0 ELSE Atoi(AfterKey(line, key))
    IN  [priority |-> Atoi(TrimLine(line)),
         from |-> IF Word(<<"f", "r", "o", "m", " ">>) = <<"a", "l", "l">> THEN NULL ELSE Word(<<"f", "r", "o", "m", " ">>),
         to |-> Word(<<"t", "o", " ">>),
         table |-> Word(<<"l", "o", "o", "k", "u", "p", " ">>),
         fwmark |-> Hex(<<"f", "w", "m", "a", "r", "k", " ">>),
         iif |-> Word(<<"i", "i", "f", " ">>),
         oif |-> Word(<<"o", "i", "f", " ">>),
         dport |-> Num(<<"d", "p", "o", "r", "t", " ">>),
         sport |-> Num(<<"s", "p", "o", "r", "t", " ">>),
         tos |-> Hex(<<"t", "o", "s", " ">>)]

\* sscanf(line, "%d:", &priority) == 1: the line begins, after white space, with
\* a digit
HasPriority(line) == TrimLine(line) # <<>> /\ IsDigit(Head(TrimLine(line)))

\* parse_rules_section: the rules of the policy_rules section, none when the
\* section is missing
parse_rules_section(content) ==
    LET section == find_section(content, <<"p", "o", "l", "i", "c", "y", "_", "r", "u", "l", "e", "s">>)
        Kept(l) == ~StrStr(l, <<"E", "X", "I", "T", "_", "C", "O", "D", "E", ":">>) /\ HasPriority(l)
        kept == SelectSeq(StrTok(section, {"\n"}, <<>>, <<>>), Kept)
    IN  IF section = NULL THEN <<>> ELSE [i \in 1..Len(kept) |-> ParseRuleLine(kept[i])]

\* the block of a filter or set section: the whole body, NULL when find_section
\* returns NULL
extract_block(content, section_name) ==
    [raw_content |-> find_section(content, section_name),
     content_size |-> IF find_section(content, section_name) = NULL THEN 0
                      ELSE Len(find_section(content, section_name))]

\* load_router_facts on a file that can be opened: the rules, the route commands
\* of every routing table and the two blocks
load_router_facts(content, router_name, facts_path) ==
    [name |-> router_name,
     raw_facts_path |-> facts_path,
     rules |-> parse_rules_section(content),
     routes |-> <<>>,
     raw_route_commands |-> ScanRoutingTables(content, 1, <<>>),
     iptables_save |-> extract_block(content, <<"i", "p", "t", "a", "b", "l", "e", "s", "_", "s", "a", "v", "e">>),
     ipset_save |-> extract_block(content, <<"i", "p", "s", "e", "t", "_", "s", "a", "v", "e">>)]

\* hidden_mesh_setup.c lines 523-556: the command of one rule
RuleCommand(rule) ==
    <<"i", "p", " ", "r", "u", "l", "e", " ", "a", "d", "d", " ", "p", "r", "i", "o", "r", "i", "t", "y", " ">> \o DecStr(rule.priority)
    \o (IF rule.from # NULL THEN <<" ", "f", "r", "o", "m", " ">> \o rule.from ELSE <<>>)
    \o (IF rule.to # NULL THEN <<" ", "t", "o", " ">> \o rule.to ELSE <<>>)
    \o (IF rule.iif # NULL THEN <<" ", "i", "i", "f", " ">> \o rule.iif ELSE <<>>)
    \o (IF rule.oif # NULL THEN <<" ", "o", "i", "f", " ">> \o rule.oif ELSE <<>>)
    \o (IF rule.fwmark # 0 THEN Snprintf(<<" ", "f", "w", "m", "a", "r", "k", " ", "0", "x">> \o HexStr(rule.fwmark), 32) ELSE <<>>)
    \o (IF rule.table # NULL THEN <<" ", "l", "o", "o", "k", "u", "p", " ">> \o rule.table ELSE <<>>)
    \o <<" ", "2", ">", "/", "d", "e", "v", "/", "n", "u", "l", "l", " ", "|", "|", " ", "t", "r", "u", "e">>

\* lines 1043-1052: the router name of a directory entry: what precedes the first
\* "_facts.txt" of the entry's name, empty when that is MAX_NAME_LEN characters or more
RouterNameOf(d_name) ==
    LET underscore == StrStrAt(d_name, <<"_", "f", "a", "c", "t", "s", ".", "t", "x", "t">>, 1)
    IN  IF underscore # 0 /\ underscore - 1 < MAX_NAME_LEN THEN SubSeq(d_name, 1, underscore - 1) ELSE <<>>

\* the loader before it is started
NoLoader == [pc |-> "none"]

\* nothing to compute
NoCalc == [pc |-> "none"]

\* no slot under way
NoRace == [wpc |-> 0, rpc |-> 0]

(***************************************************************************)
(* State.                                                                  *)
(***************************************************************************)
VARIABLES
    reg,      \* the registry in the shared-memory object /tsim_registry
    rlog,     \* router codes handed out or used since the last clear: [name, code]
    ilog,     \* interface codes handed out since the last clear: [rcode, ifname, icode]
    lastcall, \* the last registry call: [kind, hit], hit when it asked for a known key
    argv,     \* the command line: [prog, parallel]
    rawfacts, \* the raw facts directory the environment names
    run,      \* the number of the run of the program, from 1
    kern,     \* the kernel
    proc,     \* the processes: 0 the main process, the others its worker children
    sigs,     \* the SIGINTs sent so far
    mainsig,  \* the phases of the main process a SIGINT reached it in
    trace,    \* per router, the effects of its setup in this run, in order
    snap,     \* the kernel as the run found it
    rdr,      \* the netns_reader process: its command line, position and system calls
    bctx,     \* the batch context: the script buffer, its size and its capacity
    ldr,      \* the facts loader: the file it reads and what it has loaded from it
    calc,     \* an address, a prefix length and what the engine computes from them
    race      \* a registry slot while one process fills it and another scans it

vars == <<reg, rlog, ilog, lastcall, argv, rawfacts, run, kern, proc, sigs, mainsig, trace, snap,
          rdr, bctx, ldr, calc, race>>

engine == <<argv, rawfacts, run, kern, proc, sigs, mainsig, trace, snap>>

\* the facts load_facts_from_env_filtered loads: the routers of the directory
Facts == FactsDirs[rawfacts]

(***************************************************************************)
(* Processes.  A process is [st, pc, code, interrupted, sigdfl, i, j, end, *)
(* ifi, rslot, subnets, batch, stats]: st is none, run, exited (code: the  *)
(* exit status), killed (code: the signal) or reaped; sigdfl says that     *)
(* SIGINT has its default disposition; i is the loop index of main, j the  *)
(* router being set up, ifi the index of the interface loop, rslot the     *)
(* registry slot the router code pointer points into.                      *)
(***************************************************************************)
MAIN == 0

\* the children a run can fork: one per batch_size routers of the longest facts
Children == 1..((Len(FactsTwoChildren) + batch_size - 1) \div batch_size)

Pids == {MAIN} \cup Children

\* getpid(): the processes alive at the same time have different pids
Getpid(p) == p + 1

ZeroStats ==
    [namespaces_created |-> 0, interfaces_created |-> 0, bridges_created |-> 0,
     routes_added |-> 0, rules_added |-> 0]

NoProc ==
    [st |-> "none", pc |-> "none", code |-> 0, interrupted |-> FALSE, sigdfl |-> TRUE,
     i |-> 0, j |-> 0, end |-> 0, ifi |-> 0, rslot |-> -1,
     subnets |-> <<>>, batch |-> <<>>, stats |-> ZeroStats,
     cleanup |-> FALSE, euid |-> 0, env |-> TRUE, handle |-> TRUE, shm_path |-> NoName,
     batch_rc |-> 0, warned |-> FALSE]

\* the main process as execve leaves it
StartedMain == [NoProc EXCEPT !.st = "run", !.pc = "start"]

Exit(pr, code) == [pr EXCEPT !.st = "exited", !.pc = "done", !.code = code]

Kill(pr, sig) == [pr EXCEPT !.st = "killed", !.pc = "done", !.code = sig]

SIGINT == 2

SIGTERM == 15

SIGSEGV == 11

Running(p) == proc[p].st = "run"

At(p, pc) == proc[p].st = "run" /\ proc[p].pc = pc

\* the router process p is setting up
RouterOf(p) == Facts[proc[p].j + 1]

\* what the router code pointer of p points at
RouterCodeAt(r, pr) == RouterSlot(r, pr.rslot).router_code

NoTrace(f) == [r \in 0..(Len(f) - 1) |-> <<>>]

\* the kernel as the claims compare it: namespaces, links by namespace, name, kind,
\* master, addresses and the place of the peer, routes, rules
PeerPlace(k, l) ==
    LET P == {m \in k.links : m.id = l.peer}
    IN  IF P = {} THEN <<>> ELSE LET m == CHOOSE m \in P : TRUE IN <<m.ns, m.name>>

KernelView(k) ==
    [netns |-> k.netns,
     links |-> {[ns |-> l.ns, name |-> l.name, kind |-> l.kind, master |-> l.master,
                 addrs |-> l.addrs, peer |-> PeerPlace(k, l)] : l \in k.links},
     routes |-> k.routes, rules |-> k.rules]

(***************************************************************************)
(* The registry interface called directly, one call at a time.             *)
(***************************************************************************)
RegNamePool == << <<"r", "1">>, <<"r", "2">>, <<"m", "e", "s", "h">>, <<"r", "1", "-", "b">> >>

RegNames == {RegNamePool[i] : i \in 1..Min(MaxRegNames, Len(RegNamePool))}

RegIfNames == {<<"e", "t", "h", "0">>, <<"e", "t", "h", "1">>}

\* nothing has run: the registry is zeroed, the kernel empty, no process started
IdleHost ==
    /\ reg = ZeroRegistry
    /\ rlog = {}
    /\ ilog = {}
    /\ lastcall = [kind |-> "none", hit |-> FALSE]
    /\ argv = [prog |-> "registry", parallel |-> FALSE]
    /\ rawfacts = "empty"
    /\ run = 0
    /\ kern = EmptyKernel
    /\ proc = [p \in Pids |-> NoProc]
    /\ sigs = 0
    /\ mainsig = {}
    /\ trace = NoTrace(<<>>)
    /\ snap = KernelView(EmptyKernel)

InitReg ==
    /\ IdleHost
    /\ rdr = NoReader
    /\ bctx = NoBatch
    /\ ldr = NoLoader
    /\ calc = NoCalc
    /\ race = NoRace

CallGetRouterCode ==
    \E name \in RegNames :
        LET res == GetRouterCodeShm(reg, name) IN
        /\ res.slot >= 0
        /\ reg' = res.reg
        /\ rlog' = rlog \cup {[name |-> name,
                               code |-> RouterSlot(res.reg, res.slot).router_code]}
        /\ lastcall' = [kind |-> "router", hit |-> \E e \in rlog : e.name = name]
        /\ UNCHANGED <<race, rdr, bctx, ldr, calc, ilog, engine>>

CallGetInterfaceCode ==
    \E rc \in {e.code : e \in rlog}, ifname \in RegIfNames :
        LET res == GetInterfaceCodeShm(reg, rc, ifname) IN
        /\ res.code # NULL
        /\ reg' = res.reg
        /\ ilog' = ilog \cup {[rcode |-> rc, ifname |-> ifname, icode |-> res.code]}
        /\ lastcall' = [kind |-> "iface",
                        hit |-> \E e \in ilog : e.rcode = rc /\ e.ifname = ifname]
        /\ UNCHANGED <<race, rdr, bctx, ldr, calc, rlog, engine>>

CallClear ==
    /\ reg # ZeroRegistry
    /\ reg' = ClearSharedRegistry(reg)
    /\ rlog' = {}
    /\ ilog' = {}
    /\ lastcall' = [kind |-> "clear", hit |-> FALSE]
    /\ UNCHANGED <<race, engine, rdr, bctx, ldr, calc>>

NextReg == CallGetRouterCode \/ CallGetInterfaceCode \/ CallClear

SpecReg == InitReg /\ [][NextReg]_vars

(***************************************************************************)
(* The programs run: hidden_mesh_setup ("mesh") and network_setup ("net"), *)
(* sequentially or with -p, on a host that starts with no namespace.       *)
(***************************************************************************)
Scenarios == {"shared", "mesh", "inet6"}

InitOf(progs, modes, scenarios) ==
    /\ rdr = NoReader
    /\ bctx = NoBatch
    /\ ldr = NoLoader
    /\ calc = NoCalc
    /\ race = NoRace
    /\ reg = ZeroRegistry
    /\ rlog = {}
    /\ ilog = {}
    /\ lastcall = [kind |-> "none", hit |-> FALSE]
    /\ argv \in [prog : progs, parallel : modes]
    /\ rawfacts \in scenarios
    /\ run = 1
    /\ kern = EmptyKernel
    /\ proc = [p \in Pids |-> IF p = MAIN THEN StartedMain ELSE NoProc]
    /\ sigs = 0
    /\ mainsig = {}
    /\ trace = NoTrace(Facts)
    /\ snap = KernelView(EmptyKernel)

Init == InitOf({"mesh", "net"}, BOOLEAN, Scenarios)

\* where main goes once the routers are to be set up
LoopPc == IF argv.parallel THEN "P_fork" ELSE "B_loop"

\* the first step of the setup function of the program
SetupPc == IF argv.prog = "mesh" THEN "S_enter" ELSE "N_ns"

\* the return of the setup function into the loop that called it
Return(p, pr) ==
    IF p = MAIN THEN [pr EXCEPT !.pc = "B_loop", !.i = @ + 1, !.batch = <<>>]
    ELSE [pr EXCEPT !.pc = "C_loop", !.j = @ + 1, !.batch = <<>>]

\* main up to the loading of the facts.  hidden_mesh_setup installs the SIGINT
\* handler (635) and opens or creates the registry (create_mesh_context, 641); an
\* object another user made may refuse the open, and ctx->registry_handle is then
\* NULL.  --cleanup is acted on inside the argument loop (654-660), before the root
\* check (675) and with its own loading of the facts; the setup returns 1 when it is
\* not root or cannot load the facts (675-693)
MainStart ==
    /\ At(MAIN, "start")
    /\ LET pr == proc[MAIN] IN
       IF argv.prog # "mesh"
       THEN /\ proc' = [proc EXCEPT ![MAIN] = [pr EXCEPT !.sigdfl = TRUE, !.pc = LoopPc]]
            /\ reg' = reg
       ELSE \E opened \in IF pr.euid = 0 \/ reg = NoRegistry THEN {TRUE} ELSE BOOLEAN :
               /\ reg' = IF opened THEN OpenSharedRegistry(reg) ELSE reg
               /\ proc' = [proc EXCEPT ![MAIN] =
                              LET q == [pr EXCEPT !.sigdfl = FALSE, !.handle = opened]
                              IN  IF pr.cleanup
                                  THEN IF pr.env THEN [q EXCEPT !.pc = "K_registry"]
                                       ELSE Exit(q, 0)
                                  ELSE IF pr.euid # 0 \/ ~pr.env THEN Exit(q, 1)
                                  ELSE [q EXCEPT !.pc = "A_ns"]]
    /\ UNCHANGED <<race, rdr, bctx, ldr, calc, rlog, ilog, lastcall, argv, rawfacts, run, kern, sigs, mainsig, trace, snap>>

\* create_hidden_infrastructure, lines 266-269; main returns 1 when it fails
PhaseANamespace ==
    /\ At(MAIN, "A_ns")
    /\ LET res == CreateNamespaceSafe(kern, HIDDEN_NS) IN
       /\ kern' = res.k
       /\ proc' = [proc EXCEPT ![MAIN] =
                      IF res.rc # 0 THEN Exit(@, 1) ELSE [@ EXCEPT !.pc = "A_extract"]]
    /\ UNCHANGED <<race, rdr, bctx, ldr, calc, reg, rlog, ilog, lastcall, argv, rawfacts, run, sigs, mainsig, trace, snap>>

\* create_hidden_infrastructure, lines 272-319: the loops end at once when interrupted
PhaseAExtract ==
    /\ At(MAIN, "A_extract")
    /\ proc' = [proc EXCEPT ![MAIN] =
                   [@ EXCEPT !.subnets = IF proc[MAIN].interrupted THEN <<>>
                                         ELSE ExtractSubnets(AllAddressTexts(Facts), <<>>),
                             !.i = 0, !.pc = "A_bridge"]]
    /\ UNCHANGED <<race, rdr, bctx, ldr, calc, reg, rlog, ilog, lastcall, argv, rawfacts, run, kern, sigs, mainsig, trace, snap>>

\* create_hidden_infrastructure, lines 334-370: one turn of the bridge loop, or its end
PhaseABridge ==
    /\ At(MAIN, "A_bridge")
    /\ LET pr == proc[MAIN]
           go == pr.i < Len(pr.subnets) /\ ~pr.interrupted
           it == BridgeIteration(kern, reg, pr.subnets[pr.i + 1])
       IN  /\ kern' = IF go THEN it.k ELSE kern
           /\ reg' = IF go THEN it.reg ELSE reg
           /\ proc' = [proc EXCEPT ![MAIN] =
                          IF go
                          THEN [pr EXCEPT !.i = @ + 1, !.stats.bridges_created = @ + it.made]
                          ELSE [pr EXCEPT !.pc = "A_done"]]
    /\ UNCHANGED <<race, rdr, bctx, ldr, calc, rlog, ilog, lastcall, argv, rawfacts, run, sigs, mainsig, trace, snap>>

\* main, lines 715-727: the early interrupt check after Phase A
PhaseADone ==
    /\ At(MAIN, "A_done")
    /\ proc' = [proc EXCEPT ![MAIN] =
                   IF @.interrupted THEN Exit(@, 130) ELSE [@ EXCEPT !.pc = LoopPc, !.i = 0]]
    /\ UNCHANGED <<race, rdr, bctx, ldr, calc, reg, rlog, ilog, lastcall, argv, rawfacts, run, kern, sigs, mainsig, trace, snap>>

\* the sequential loop of main: the interrupt check, then the setup of router i
SequentialLoop ==
    /\ At(MAIN, "B_loop")
    /\ proc' = [proc EXCEPT ![MAIN] =
                   IF @.i < Len(Facts) /\ ~@.interrupted
                   THEN [@ EXCEPT !.pc = SetupPc, !.j = proc[MAIN].i]
                   ELSE [@ EXCEPT !.pc = "summary"]]
    /\ UNCHANGED <<race, rdr, bctx, ldr, calc, reg, rlog, ilog, lastcall, argv, rawfacts, run, kern, sigs, mainsig, trace, snap>>

\* the fork loop of main: a child for routers i .. i + batch_size - 1; the child is a
\* copy of main and, in hidden_mesh_setup, installs the SIGINT handler again
Fork ==
    /\ At(MAIN, "P_fork")
    /\ LET pr == proc[MAIN]
           c == (pr.i \div batch_size) + 1
       IN  proc' = IF pr.i < Len(Facts) /\ ~pr.interrupted
                   THEN [proc EXCEPT ![MAIN] = [pr EXCEPT !.i = @ + batch_size],
                                     ![c] = [pr EXCEPT !.pc = "C_loop", !.j = pr.i,
                                                       !.end = Min(pr.i + batch_size, Len(Facts)),
                                                       !.sigdfl = (argv.prog # "mesh")]]
                   ELSE [proc EXCEPT ![MAIN] = [pr EXCEPT !.pc = "P_wait"]]
    /\ UNCHANGED <<race, rdr, bctx, ldr, calc, reg, rlog, ilog, lastcall, argv, rawfacts, run, kern, sigs, mainsig, trace, snap>>

\* Wait that waits for one child only
WaitOnce ==
    /\ At(MAIN, "P_wait")
    /\ LET ended == {c \in Children : proc[c].st \in {"exited", "killed"}}
           left == {c \in Children : proc[c].st = "run"}
       IN  /\ ended # {} \/ left = {}
           /\ IF ended = {}
              THEN proc' = [proc EXCEPT ![MAIN] = [@ EXCEPT !.pc = "summary"]]
              ELSE \E c \in ended :
                      proc' = [proc EXCEPT ![c] = [@ EXCEPT !.st = "reaped"],
                                           ![MAIN] = [@ EXCEPT !.pc = "summary"]]
    /\ UNCHANGED <<race, rdr, bctx, ldr, calc, reg, rlog, ilog, lastcall, argv, rawfacts, run, kern, sigs, mainsig, trace, snap>>

\* the wait loop of main: wait() hands back a child that ended, and main, when it was
\* interrupted, then sends SIGTERM to its process group, itself included; wait()
\* fails when no child is left
Wait ==
    /\ At(MAIN, "P_wait")
    /\ LET ended == {c \in Children : proc[c].st \in {"exited", "killed"}}
           left == {c \in Children : proc[c].st = "run"}
       IN  /\ ended # {} \/ left = {}
           /\ IF ended = {}
              THEN proc' = [proc EXCEPT ![MAIN] = [@ EXCEPT !.pc = "summary"]]
              ELSE \E c \in ended :
                      proc' = [q \in Pids |->
                                  IF q = c THEN [proc[q] EXCEPT !.st = "reaped"]
                                  ELSE IF proc[MAIN].interrupted /\ proc[q].st = "run"
                                  THEN Kill(proc[q], SIGTERM)
                                  ELSE proc[q]]
    /\ UNCHANGED <<race, rdr, bctx, ldr, calc, reg, rlog, ilog, lastcall, argv, rawfacts, run, kern, sigs, mainsig, trace, snap>>

\* the summary and the exit status of main
Summary ==
    /\ At(MAIN, "summary")
    /\ proc' = [proc EXCEPT ![MAIN] = Exit(@, IF @.interrupted THEN 130 ELSE 0)]
    /\ UNCHANGED <<race, rdr, bctx, ldr, calc, reg, rlog, ilog, lastcall, argv, rawfacts, run, kern, sigs, mainsig, trace, snap>>

\* the loop of a worker child over its routers, then exit(0)
ChildLoop(p) ==
    /\ p \in Children
    /\ At(p, "C_loop")
    /\ proc' = [proc EXCEPT ![p] =
                   IF @.j < @.end /\ ~@.interrupted THEN [@ EXCEPT !.pc = SetupPc]
                   ELSE Exit(@, 0)]
    /\ UNCHANGED <<race, rdr, bctx, ldr, calc, reg, rlog, ilog, lastcall, argv, rawfacts, run, kern, sigs, mainsig, trace, snap>>

(***************************************************************************)
(* setup_router_with_veth, run by main (sequential) or by a child (-p).    *)
(***************************************************************************)
\* SetupEnter without the interrupt check of line 376
SetupEnterNoCheck(p) ==
    /\ At(p, "S_enter")
    /\ LET pr == proc[p]
           hit == RouterScan(reg, RouterOf(p).name)
           free == RouterFreeSlot(reg)
       IN  proc' = [proc EXCEPT ![p] =
                       IF hit >= 0 THEN [pr EXCEPT !.rslot = hit, !.pc = "S_ns"]
                       ELSE IF free < 0 THEN Return(p, pr)
                       ELSE [pr EXCEPT !.rslot = free, !.pc = "RC_create"]]
    /\ UNCHANGED <<race, rdr, bctx, ldr, calc, reg, rlog, ilog, lastcall, argv, rawfacts, run, kern, sigs, mainsig, trace, snap>>

\* lines 376-386 and get_router_code_shm up to the slot it will use: the interrupt
\* check, the scan for the name, the search of a free slot
SetupEnter(p) ==
    /\ At(p, "S_enter")
    /\ LET pr == proc[p]
           hit == RouterScan(reg, RouterOf(p).name)
           free == RouterFreeSlot(reg)
       IN  proc' = [proc EXCEPT ![p] =
                       IF pr.interrupted THEN Return(p, pr)
                       ELSE IF hit >= 0 THEN [pr EXCEPT !.rslot = hit, !.pc = "S_ns"]
                       ELSE IF free < 0 THEN Return(p, pr)
                       ELSE [pr EXCEPT !.rslot = free, !.pc = "RC_create"]]
    /\ UNCHANGED <<race, rdr, bctx, ldr, calc, reg, rlog, ilog, lastcall, argv, rawfacts, run, kern, sigs, mainsig, trace, snap>>

\* get_router_code_shm, lines 173-180: the slot found free is written and made active
RouterCodeCreate(p) ==
    /\ At(p, "RC_create")
    /\ reg' = RouterActivate(RouterFill(reg, proc[p].rslot, RouterOf(p).name), proc[p].rslot)
    /\ proc' = [proc EXCEPT ![p] = [@ EXCEPT !.pc = "S_ns"]]
    /\ UNCHANGED <<race, rdr, bctx, ldr, calc, rlog, ilog, lastcall, argv, rawfacts, run, kern, sigs, mainsig, trace, snap>>

\* lines 392-407: the namespace of the router, the batch context with its
\* shared-memory object, the first two lines of the batch
SetupNamespace(p) ==
    /\ At(p, "S_ns")
    /\ LET pr == proc[p]
           res == CreateNamespaceSafe(kern, RouterOf(p).name)
           shm_name == BatchShmName(Getpid(p), kern.now)
       IN  /\ kern' = IF res.rc # 0 THEN res.k ELSE ShmCreate(res.k, shm_name)
           /\ proc' = [proc EXCEPT ![p] =
                          IF res.rc # 0 THEN Return(p, pr)
                          ELSE [pr EXCEPT !.stats.namespaces_created = @ + 1,
                                          !.shm_path = shm_name,
                                          !.batch = <<Cmd("ipset_flush", NoName, <<>>, TRUE),
                                                      Cmd("ipset_destroy", NoName, <<>>, TRUE)>>,
                                          !.ifi = 0, !.pc = "I_loop"]]
    /\ UNCHANGED <<race, rdr, bctx, ldr, calc, reg, rlog, ilog, lastcall, argv, rawfacts, run, sigs, mainsig, trace, snap>>

\* lines 410-559: one turn of the interface loop; when the loop ends, the route and
\* rule loops, which queue nothing once interrupted.  A NULL interface code is
\* handed to snprintf's %s (422-423): the C library writes "(null)" or the process
\* dies of SIGSEGV
InterfaceLoop(p) ==
    /\ At(p, "I_loop")
    /\ LET pr == proc[p]
           router == RouterOf(p)
           go == pr.ifi < Len(router.interfaces) /\ ~pr.interrupted
           iface == router.interfaces[pr.ifi + 1]
           veth == go /\ iface.name # LO
           router_code == RouterCodeAt(reg, pr)
           it == VethIteration(kern, reg, router.name, router_code, iface)
           tail == IF pr.interrupted THEN <<>> ELSE RouteRuleCmds(router)
       IN  \E crash \in IF veth /\ it.icode = NULL THEN BOOLEAN ELSE {FALSE} :
           /\ kern' = IF veth /\ ~crash THEN it.k ELSE kern
           /\ reg' = IF veth THEN it.reg ELSE reg
           /\ rlog' = IF veth THEN rlog \cup {[name |-> router.name, code |-> router_code]}
                      ELSE rlog
           /\ ilog' = IF veth
                      THEN ilog \cup {[rcode |-> router_code, ifname |-> iface.name,
                                       icode |-> it.icode]}
                      ELSE ilog
           /\ trace' = IF veth /\ ~crash THEN [trace EXCEPT ![pr.j] = @ \o it.ev] ELSE trace
           /\ proc' = [proc EXCEPT ![p] =
                          IF crash THEN Kill(pr, SIGSEGV)
                          ELSE IF veth
                          THEN [pr EXCEPT !.ifi = @ + 1, !.batch = @ \o it.cmds,
                                          !.stats.interfaces_created = @ + it.made]
                          ELSE IF go THEN [pr EXCEPT !.ifi = @ + 1]
                          ELSE [pr EXCEPT !.batch = @ \o tail,
                                          !.stats.routes_added =
                                              @ + (IF pr.interrupted THEN 0
                                                   ELSE Len(router.raw_route_commands)),
                                          !.stats.rules_added =
                                              @ + (IF pr.interrupted THEN 0
                                                   ELSE Len(router.rules)),
                                          !.pc = "X_apply"]]
    /\ UNCHANGED <<race, rdr, bctx, ldr, calc, lastcall, argv, rawfacts, run, sigs, mainsig, snap>>

\* lines 561-588: the batch is run, then the IP sets, then the packet filters; the
\* batch context is freed and its shared-memory object unlinked
ApplyBatch(p) ==
    /\ At(p, "X_apply")
    /\ LET pr == proc[p]
           ex == BatchExecute(kern, RouterOf(p).name, pr.batch, <<>>)
           rs == RestoreSets(ex.k, RouterOf(p).name, RouterOf(p))
       IN  /\ kern' = ShmUnlink(rs.k, pr.shm_path)
           /\ trace' = [trace EXCEPT ![pr.j] = @ \o ex.ev \o rs.ev]
           /\ proc' = [proc EXCEPT ![p] = Return(p, [pr EXCEPT !.shm_path = NoName,
                                                                !.batch_rc = ex.rc])]
    /\ UNCHANGED <<race, rdr, bctx, ldr, calc, reg, rlog, ilog, lastcall, argv, rawfacts, run, sigs, mainsig, snap>>

(***************************************************************************)
(* hidden_mesh_setup --cleanup: cleanup_namespaces.  A command of a        *)
(* process that is not root fails and changes nothing.                     *)
(***************************************************************************)
\* cleanup_namespaces that leaves the registry as it is
CleanupRegistryKept ==
    /\ At(MAIN, "K_registry")
    /\ reg' = reg
    /\ proc' = [proc EXCEPT ![MAIN] = [@ EXCEPT !.handle = FALSE, !.i = 0, !.pc = "K_router"]]
    /\ UNCHANGED <<race, rdr, bctx, ldr, calc, rlog, ilog, lastcall, argv, rawfacts, run, kern, sigs, mainsig, trace, snap>>

\* lines 597-607: the registry is cleared and its object removed when the handle
\* is there
CleanupRegistry ==
    /\ At(MAIN, "K_registry")
    /\ reg' = IF proc[MAIN].handle THEN NoRegistry ELSE reg
    /\ proc' = [proc EXCEPT ![MAIN] = [@ EXCEPT !.handle = FALSE, !.i = 0, !.pc = "K_router"]]
    /\ UNCHANGED <<race, rdr, bctx, ldr, calc, rlog, ilog, lastcall, argv, rawfacts, run, kern, sigs, mainsig, trace, snap>>

\* lines 610-624, one turn of the loop: the IP sets of the router's namespace are
\* destroyed and the namespace deleted; after the last router, hidden-mesh
CleanupRouter ==
    /\ At(MAIN, "K_router")
    /\ LET pr == proc[MAIN]
           go == pr.i < Len(Facts)
           ns == Facts[pr.i + 1].name
       IN  /\ kern' = IF go /\ pr.euid = 0 THEN NetnsDel(IpsetDestroy(kern, ns).k, ns).k
                      ELSE kern
           /\ proc' = [proc EXCEPT ![MAIN] =
                          IF go THEN [pr EXCEPT !.i = @ + 1] ELSE [pr EXCEPT !.pc = "K_hidden"]]
    /\ UNCHANGED <<race, rdr, bctx, ldr, calc, reg, rlog, ilog, lastcall, argv, rawfacts, run, sigs, mainsig, trace, snap>>

\* lines 626-629, and main returns 0 (658-659)
CleanupHidden ==
    /\ At(MAIN, "K_hidden")
    /\ kern' = IF proc[MAIN].euid = 0 THEN NetnsDel(kern, HIDDEN_NS).k ELSE kern
    /\ proc' = [proc EXCEPT ![MAIN] = Exit(@, 0)]
    /\ UNCHANGED <<race, rdr, bctx, ldr, calc, reg, rlog, ilog, lastcall, argv, rawfacts, run, sigs, mainsig, trace, snap>>

(***************************************************************************)
(* setup_router of network_setup.c.                                        *)
(***************************************************************************)
\* lines 55-117, one interface: a dummy link (and its MAC) when "ip link show" does
\* not find the interface, then addresses, up, MTU
NetInterfaceCmds(k, ns, iface) ==
    IF iface.name = LO THEN <<>>
    ELSE (IF HasLink(k, ns, iface.name) THEN <<>>
          ELSE <<Cmd("dummy", iface.name, <<>>, FALSE)>>
               \o (IF iface.mac # "" THEN <<Cmd("mac", iface.name, iface.mac, FALSE)>>
                   ELSE <<>>))
         \o InterfaceCmds([iface EXCEPT !.mac = ""])

\* lines 168-179: the rules left out
NetRuleSkipped(rule) ==
    \/ rule.priority \in {0, 32766, 32767}
    \/ /\ rule.table # <<>>
       /\ Atoi(rule.table) = 0
       /\ rule.table \notin {<<"m", "a", "i", "n">>, <<"l", "o", "c", "a", "l">>, <<"d", "e", "f", "a", "u", "l", "t">>}

\* lines 51-231: the script of one router
NetBatch(k, ns, router) ==
    LET KeepRoute(route) == route.protocol # "kernel"
        KeepRule(rule) == ~NetRuleSkipped(rule)
        routes == SelectSeq(router.routes, KeepRoute)
        rules == SelectSeq(router.rules, KeepRule)
    IN  <<Cmd("up", LO, <<>>, FALSE)>>
        \o Flatten([i \in 1..Len(router.interfaces) |->
                       NetInterfaceCmds(k, ns, router.interfaces[i])])
        \o [i \in 1..Len(routes) |-> Cmd("route", NoName, routes[i], FALSE)]
        \o [i \in 1..Len(rules) |-> Cmd("rule", NoName, rules[i], FALSE)]
        \o <<Cmd("sysctl", NoName, <<>>, FALSE), Cmd("sysctl", NoName, <<>>, FALSE)>>

\* lines 31-42: create_namespace; setup_router returns when it fails
NetNamespace(p) ==
    /\ At(p, "N_ns")
    /\ LET pr == proc[p]
           ns == RouterOf(p).name
           add == IF NamespaceExists(kern, ns) THEN Done(kern) ELSE NetnsAdd(kern, ns)
       IN  /\ kern' = add.k
           /\ proc' = [proc EXCEPT ![p] =
                          IF add.ok THEN [pr EXCEPT !.pc = "N_apply"] ELSE Return(p, pr)]
    /\ UNCHANGED <<race, rdr, bctx, ldr, calc, reg, rlog, ilog, lastcall, argv, rawfacts, run, sigs, mainsig, trace, snap>>

\* lines 44-262: the script is written and run, then the IP sets, then the packet filters
NetApply(p) ==
    /\ At(p, "N_apply")
    /\ LET pr == proc[p]
           ns == RouterOf(p).name
           shm_name == BatchShmName(Getpid(p), kern.now)
           made == ShmCreate(kern, shm_name)
           ex == BatchExecute(made, ns, NetBatch(made, ns, RouterOf(p)), <<>>)
           rs == RestoreSets(ex.k, ns, RouterOf(p))
       IN  /\ kern' = ShmUnlink(rs.k, shm_name)
           /\ trace' = [trace EXCEPT ![pr.j] = @ \o ex.ev \o rs.ev]
           /\ proc' = [proc EXCEPT ![p] = Return(p, [pr EXCEPT !.batch_rc = ex.rc,
                                                                !.warned = ex.rc # 0])]
    /\ UNCHANGED <<race, rdr, bctx, ldr, calc, reg, rlog, ilog, lastcall, argv, rawfacts, run, sigs, mainsig, snap>>

(***************************************************************************)
(* Signals and runs.                                                       *)
(***************************************************************************)
\* the phase of the setup main is in
PhaseOf(pc) ==
    IF pc \in {"A_ns", "A_extract", "A_bridge"} THEN "A"
    ELSE IF pc \in {"B_loop", "S_enter", "RC_create", "S_ns", "I_loop", "X_apply"}
    THEN "B"
    ELSE IF pc = "P_wait" THEN "wait"
    ELSE "other"

\* the next step of p is spent in system(), which ignores SIGINT in the caller
InSystem(p) ==
    LET pr == proc[p] IN
    \/ pr.pc \in {"A_ns", "S_ns", "N_ns", "N_apply", "K_hidden"}
    \/ pr.pc = "K_router" /\ pr.i < Len(Facts)
    \/ pr.pc = "A_bridge" /\ pr.i < Len(pr.subnets) /\ ~pr.interrupted
    \/ /\ pr.pc = "I_loop" /\ pr.ifi < Len(RouterOf(p).interfaces) /\ ~pr.interrupted
       /\ RouterOf(p).interfaces[pr.ifi + 1].name # LO
    \/ /\ pr.pc = "X_apply"
       /\ (RouterOf(p).ipset_save # "" \/ RouterOf(p).iptables_save # "")

\* SIGINT reaches p outside system(): sigint_handler (lines 35-42) when it is
\* installed, the death of the process when the disposition is the default
Sigint(p) ==
    /\ Running(p)
    /\ sigs < MaxSigints
    /\ sigs' = sigs + 1
    /\ mainsig' = IF p = MAIN THEN mainsig \cup {PhaseOf(proc[p].pc)} ELSE mainsig
    /\ proc' = [proc EXCEPT ![p] =
                   IF @.sigdfl THEN Kill(@, SIGINT)
                   ELSE [@ EXCEPT !.interrupted = TRUE, !.sigdfl = TRUE]]
    /\ UNCHANGED <<race, rdr, bctx, ldr, calc, reg, rlog, ilog, lastcall, argv, rawfacts, run, kern, trace, snap>>

\* SIGINT is sent to p while it is inside system(): the signal is discarded, never
\* delivered
SigintInSystem(p) ==
    /\ Running(p)
    /\ InSystem(p)
    /\ sigs < MaxSigints
    /\ sigs' = sigs + 1
    /\ UNCHANGED <<race, rdr, bctx, ldr, calc, reg, rlog, ilog, lastcall, argv, rawfacts, run, kern, proc, mainsig,
                   trace, snap>>

\* the program is run again, with the same arguments and facts, on the host and the
\* registry an undisturbed run left
StartRun ==
    /\ proc[MAIN].st = "exited"
    /\ \A p \in Pids : ~Running(p)
    /\ sigs = 0
    /\ run < MaxRuns
    /\ run' = run + 1
    /\ proc' = [p \in Pids |-> IF p = MAIN THEN StartedMain ELSE NoProc]
    /\ trace' = NoTrace(Facts)
    /\ snap' = KernelView(kern)
    /\ UNCHANGED <<race, rdr, bctx, ldr, calc, reg, rlog, ilog, lastcall, argv, rawfacts, kern, sigs, mainsig>>

\* the user ids and the states of TRACEROUTE_SIMULATOR_RAW_FACTS (set to a directory
\* that opens, or not) an invocation is made with
Euids == {0, 1000}

\* hidden_mesh_setup is invoked for a setup that will not pass the checks of main: not
\* as root, or without a facts directory it can open
StartRefused ==
    /\ argv.prog = "mesh"
    /\ proc[MAIN].st \in {"exited", "killed"}
    /\ \A p \in Pids : ~Running(p)
    /\ \E e \in Euids, f \in BOOLEAN :
          /\ e # 0 \/ ~f
          /\ proc' = [p \in Pids |-> IF p = MAIN THEN [StartedMain EXCEPT !.euid = e, !.env = f]
                                     ELSE NoProc]
    /\ mainsig' = {}
    /\ UNCHANGED <<race, rdr, bctx, ldr, calc, reg, rlog, ilog, lastcall, argv, rawfacts, run, kern, sigs, trace, snap>>

\* hidden_mesh_setup --cleanup is invoked on what the setup runs left, complete or
\* not; when it is root and can load the facts the next setup is a first run again
StartCleanup ==
    /\ argv.prog = "mesh"
    /\ proc[MAIN].st \in {"exited", "killed"}
    /\ ~proc[MAIN].cleanup
    /\ \A p \in Pids : ~Running(p)
    /\ \E e \in Euids, f \in BOOLEAN :
          /\ proc' = [p \in Pids |-> IF p = MAIN
                                     THEN [StartedMain EXCEPT !.cleanup = TRUE, !.euid = e,
                                                              !.env = f]
                                     ELSE NoProc]
          /\ run' = IF e = 0 /\ f THEN 0 ELSE run
    /\ mainsig' = {}
    /\ UNCHANGED <<race, rdr, bctx, ldr, calc, reg, rlog, ilog, lastcall, argv, rawfacts, kern, sigs, trace, snap>>

Next ==
    \/ MainStart
    \/ PhaseANamespace
    \/ PhaseAExtract
    \/ PhaseABridge
    \/ PhaseADone
    \/ SequentialLoop
    \/ Fork
    \/ Wait
    \/ Summary
    \/ \E p \in Pids : ChildLoop(p)
    \/ \E p \in Pids : SetupEnter(p)
    \/ \E p \in Pids : RouterCodeCreate(p)
    \/ \E p \in Pids : SetupNamespace(p)
    \/ \E p \in Pids : InterfaceLoop(p)
    \/ \E p \in Pids : ApplyBatch(p)
    \/ \E p \in Pids : NetNamespace(p)
    \/ \E p \in Pids : NetApply(p)
    \/ \E p \in Pids : Sigint(p)
    \/ \E p \in Pids : SigintInSystem(p)
    \/ StartRun
    \/ StartRefused
    \/ StartCleanup
    \/ CleanupRegistry
    \/ CleanupRouter
    \/ CleanupHidden

Spec == Init /\ [][Next]_vars

(***************************************************************************)
(* hidden_mesh_setup -p with one router more than a child is given, so     *)
(* that two worker children run side by side; no signal, one run.          *)
(***************************************************************************)
InitTwoChildren == InitOf({"mesh"}, {TRUE}, {"twochildren"})

NextTwoChildren ==
    \/ MainStart
    \/ PhaseANamespace
    \/ PhaseAExtract
    \/ PhaseABridge
    \/ PhaseADone
    \/ Fork
    \/ Wait
    \/ Summary
    \/ \E p \in Pids : ChildLoop(p)
    \/ \E p \in Pids : SetupEnter(p)
    \/ \E p \in Pids : RouterCodeCreate(p)
    \/ \E p \in Pids : SetupNamespace(p)
    \/ \E p \in Pids : InterfaceLoop(p)
    \/ \E p \in Pids : ApplyBatch(p)

SpecTwoChildren == InitTwoChildren /\ [][NextTwoChildren]_vars

(***************************************************************************)
(* hidden_mesh_setup -p with two worker children, and SIGINT reaching the  *)
(* parent while it waits for them.                                         *)
(***************************************************************************)
SigintWait == At(MAIN, "P_wait") /\ Sigint(MAIN)

NextInterrupt == NextTwoChildren \/ SigintWait

SpecInterrupt == InitTwoChildren /\ [][NextInterrupt]_vars

(***************************************************************************)
(* hidden_mesh_setup, sequential or with -p, on a router that has more     *)
(* interfaces than a block of the registry holds; no signal, one run.      *)
(***************************************************************************)
InitWide == InitOf({"mesh"}, BOOLEAN, {"wide"})

NextWide ==
    \/ MainStart
    \/ PhaseANamespace
    \/ PhaseAExtract
    \/ PhaseABridge
    \/ PhaseADone
    \/ SequentialLoop
    \/ Fork
    \/ Wait
    \/ Summary
    \/ \E p \in Pids : ChildLoop(p)
    \/ \E p \in Pids : SetupEnter(p)
    \/ \E p \in Pids : RouterCodeCreate(p)
    \/ \E p \in Pids : SetupNamespace(p)
    \/ \E p \in Pids : InterfaceLoop(p)
    \/ \E p \in Pids : ApplyBatch(p)

SpecWide == InitWide /\ [][NextWide]_vars

(***************************************************************************)
(* The specification of netns_reader: one invocation, on any command line  *)
(* of the pools below, from main to exit or to the exec of the command.    *)
(***************************************************************************)
\* the namespace names netns_reader is called with: a namespace of the host,
\* a missing one, a path, the parent directory, the directory and --list
ReaderNames ==
    {<<"r", "1">>, <<"r", "2">>, <<"/", "r", "1">>, <<".", ".">>, <<".">>, W_list}

\* the command names: the whitelisted ones and a shell
ReaderCmds == {allowed_commands[i][1] : i \in 1..Len(allowed_commands)} \cup {"sh"}

\* the arguments: whitelisted words, a table id, the empty string, a word
\* that changes state
ReaderWords ==
    {<<"s", "h", "o", "w">>, W_table, <<"7">>, <<>>, <<"l", "i", "s", "t">>,
     <<"d", "e", "l">>}

\* command lines with more arguments than exec_argv has room for: whitelisted words
\* only, and one with a word that changes state behind the last slot
LongReaderArgs ==
    {[i \in 1..n |-> <<"s", "h", "o", "w">>] : n \in {MAX_ARGS - 2, MAX_ARGS - 1, MAX_ARGS + 1}}
    \cup {[i \in 1..(MAX_ARGS - 1) |-> IF i = MAX_ARGS - 1 THEN <<"d", "e", "l">>
                                        ELSE <<"s", "h", "o", "w">>]}

ReaderArgs == UNION {[1..n -> ReaderWords] : n \in 0..MaxReaderArgs} \cup LongReaderArgs

InitReader ==
    /\ IdleHost
    /\ bctx = NoBatch
    /\ ldr = NoLoader
    /\ calc = NoCalc
    /\ race = NoRace
    /\ \E nsname \in ReaderNames, cmd \in ReaderCmds, args \in ReaderArgs :
          rdr = [NoReader EXCEPT !.pc = "main", !.nsname = nsname, !.cmd = cmd,
                                 !.args = args]

\* main with an argument loop that copies every argument of the command line
ReaderMainAllArgs ==
    /\ rdr.pc = "main"
    /\ LET cmd_path == get_command_path(rdr.cmd)
           arg_count == Min(Len(rdr.args), MAX_ARGS - 2)
           exec_args == SubSeq(rdr.args, 1, arg_count)
       IN rdr' =
            IF rdr.nsname = W_list THEN ReaderExit(rdr, "", 0)
            ELSE IF ~validate_namespace(rdr.nsname) THEN ReaderExit(rdr, "namespace", 1)
            ELSE IF cmd_path = NoPath THEN ReaderExit(rdr, "command", 1)
            ELSE IF ~validate_args(rdr.cmd, exec_args, arg_count)
            THEN ReaderExit(rdr, "argument", 1)
            ELSE [rdr EXCEPT !.pc = "enter", !.cmd_path = cmd_path,
                             !.exec_argv = <<rdr.cmd>> \o rdr.args]
    /\ UNCHANGED <<race, reg, rlog, ilog, lastcall, engine, bctx, ldr, calc>>

\* main, lines 213-262: the checks of the command line
ReaderMain ==
    /\ rdr.pc = "main"
    /\ LET cmd_path == get_command_path(rdr.cmd)
           arg_count == Min(Len(rdr.args), MAX_ARGS - 2)
           exec_args == SubSeq(rdr.args, 1, arg_count)
       IN rdr' =
            IF rdr.nsname = W_list THEN ReaderExit(rdr, "", 0)
            ELSE IF ~validate_namespace(rdr.nsname) THEN ReaderExit(rdr, "namespace", 1)
            ELSE IF cmd_path = NoPath THEN ReaderExit(rdr, "command", 1)
            ELSE IF ~validate_args(rdr.cmd, exec_args, arg_count)
            THEN ReaderExit(rdr, "argument", 1)
            ELSE [rdr EXCEPT !.pc = "enter", !.cmd_path = cmd_path,
                             !.exec_argv = <<rdr.cmd>> \o exec_args]
    /\ UNCHANGED <<race, reg, rlog, ilog, lastcall, engine, bctx, ldr, calc>>

\* enter_namespace_and_exec, lines 171-192: open and setns.  The open can be
\* refused; setns succeeds on a namespace file only, and only with the
\* capability
ReaderEnter ==
    /\ rdr.pc = "enter"
    /\ \E opened \in BOOLEAN,
          entered \in IF rdr.nsname \in NetnsFiles THEN BOOLEAN ELSE {FALSE} :
          rdr' =
            IF ~opened THEN ReaderExit(rdr, "open namespace", 1)
            ELSE IF ~entered
            THEN ReaderExit([rdr EXCEPT !.calls = rdr.calls \o <<"open">>], "setns", 1)
            ELSE [rdr EXCEPT !.pc = "drop", !.calls = rdr.calls \o <<"open", "setns">>]
    /\ UNCHANGED <<race, reg, rlog, ilog, lastcall, engine, bctx, ldr, calc>>

\* lines 197-205: setgid(getgid()) || setuid(getuid())
ReaderDrop ==
    /\ rdr.pc = "drop"
    /\ \E gid_set \in BOOLEAN, uid_set \in BOOLEAN :
          rdr' =
            IF ~gid_set THEN ReaderExit(rdr, "Failed to drop privileges", 1)
            ELSE IF ~uid_set
            THEN ReaderExit([rdr EXCEPT !.calls = rdr.calls \o <<"setgid">>],
                            "Failed to drop privileges", 1)
            ELSE [rdr EXCEPT !.pc = "exec", !.calls = rdr.calls \o <<"setgid", "setuid">>]
    /\ UNCHANGED <<race, reg, rlog, ilog, lastcall, engine, bctx, ldr, calc>>

\* lines 207-211: execv(cmd_path, argv)
ReaderExec ==
    /\ rdr.pc = "exec"
    /\ \E done \in BOOLEAN :
          rdr' =
            IF done THEN [rdr EXCEPT !.pc = "execed", !.calls = rdr.calls \o <<"execv">>]
            ELSE ReaderExit(rdr, "execv", 1)
    /\ UNCHANGED <<race, reg, rlog, ilog, lastcall, engine, bctx, ldr, calc>>

NextReader == ReaderMain \/ ReaderEnter \/ ReaderDrop \/ ReaderExec

SpecReader == InitReader /\ [][NextReader]_vars

\* the lines of the script bash reads: the text between the newlines
ScriptLines(script) ==
    LET ends == {i \in 1..Len(script) : script[i] = "\n"} \cup {Len(script) + 1}
        End(k) == CHOOSE i \in ends : Cardinality({j \in ends : j < i}) = k - 1
        NonEmpty(line) == line # <<>>
    IN  SelectSeq([k \in 1..Cardinality(ends) |->
                      SubSeq(script, IF k = 1 THEN 1 ELSE End(k - 1) + 1, End(k) - 1)],
                  NonEmpty)

\* a line whose status cannot end the script: it ends in || true
OrTrue(line) ==
    Len(line) >= 7 /\ SubSeq(line, Len(line) - 6, Len(line)) = <<"|", "|", " ", "t", "r", "u", "e">>

\* bash without set -e: every line of the script is run
batch_execute_all(ctx, failed) ==
    LET lines == ScriptLines(SubSeq(ctx.script_buffer, 1, ctx.buffer_size))
        cmds == SubSeq(lines, 3, Len(lines))
    IN  [ctx EXCEPT !.st = "ran", !.ran = cmds, !.failed = failed,
                    !.status = IF cmds # <<>> /\ Len(cmds) \in failed /\ ~OrTrue(cmds[Len(cmds)])
                               THEN 1 ELSE 0]

\* batch_execute: bash runs the script; line 1 is a comment, line 2 sets errexit, and
\* the commands after them run in order until one whose number is in failed exits
\* non-zero without || true; the status is that of the last command run
batch_execute(ctx, failed) ==
    LET lines == ScriptLines(SubSeq(ctx.script_buffer, 1, ctx.buffer_size))
        cmds == SubSeq(lines, 3, Len(lines))
        errexit == lines[2] = <<"s", "e", "t", " ", "-", "e">>
        stops == {i \in 1..Len(cmds) : errexit /\ i \in failed /\ ~OrTrue(cmds[i])}
        last == IF stops = {} THEN Len(cmds) ELSE CHOOSE i \in stops : \A j \in stops : i <= j
    IN  [ctx EXCEPT !.st = "ran", !.ran = SubSeq(cmds, 1, last), !.failed = failed,
                    !.status = IF last > 0 /\ last \in failed /\ ~OrTrue(cmds[last])
                               THEN 1 ELSE 0]

(***************************************************************************)
(* The specification of the batch buffer: a context is created and command *)
(* lines are added to it.                                                  *)
(***************************************************************************)
\* the sizes create_batch_context is called with: the default and two small ones
BatchSizes == {0, MaxCapacity \div 2, MaxCapacity}

\* the namespaces of the lines: none and a router
BatchNamespaces == {NULL, <<"r", "1">>}

\* "ip link set lo up", "ipset list" and "ipset flush 2>/dev/null || true"
BatchCommands ==
    {<<"i", "p", "s", "e", "t", " ", "f", "l", "u", "s", "h", " ", "2", ">", "/", "d", "e", "v", "/", "n", "u", "l", "l", " ", "|", "|", " ", "t", "r", "u", "e">>,
     <<"i", "p", " ", "l", "i", "n", "k", " ", "s", "e", "t", " ", "l", "o", " ", "u", "p">>,
     <<"i", "p", "s", "e", "t", " ", "l", "i", "s", "t">>}

BatchCreate ==
    /\ bctx.st = "none"
    /\ \E initial_size \in BatchSizes : bctx' = create_batch_context(initial_size)
    /\ UNCHANGED <<race, reg, rlog, ilog, lastcall, engine, rdr, ldr, calc>>

BatchAdd ==
    /\ bctx.st = "open"
    /\ bctx.calls < MaxAdds
    /\ \E namespace \in BatchNamespaces, command \in BatchCommands :
          LET res == batch_add_command(bctx, namespace, command)
          IN  bctx' = [res EXCEPT !.calls = bctx.calls + 1,
                                  !.last = FullCmd(namespace, command),
                                  !.queued = IF res.rc = 0
                                             THEN Append(bctx.queued, <<namespace, command>>)
                                             ELSE bctx.queued]
    /\ UNCHANGED <<race, reg, rlog, ilog, lastcall, engine, rdr, ldr, calc>>

\* batch_execute: the script is run, each of its commands exiting zero or not
BatchRun ==
    /\ bctx.st = "open"
    /\ \E failed \in SUBSET (1..Len(bctx.queued)) : bctx' = batch_execute(bctx, failed)
    /\ UNCHANGED <<race, reg, rlog, ilog, lastcall, engine, rdr, ldr, calc>>

NextBatch == BatchCreate \/ BatchAdd \/ BatchRun

SpecBatch == InitReg /\ [][NextBatch]_vars

(***************************************************************************)
(* The facts loader on its own: a raw facts directory of a few files, read *)
(* entry by entry, and the rule commands the engine makes of what was      *)
(* loaded.  A file is held as its sections, each a name and its content    *)
(* lines, and is read in the format the collectors write:                  *)
(*   === TSIM_SECTION_START:<name> ===                                     *)
(*   ---                                                                   *)
(*   <lines>                                                               *)
(*   EXIT_CODE: 0                                                          *)
(*   === TSIM_SECTION_END:<name> ===                                       *)
(***************************************************************************)
SectionText(name, lines) ==
    <<"=", "=", "=", " ", "T", "S", "I", "M", "_", "S", "E", "C", "T", "I", "O", "N", "_", "S", "T", "A", "R", "T", ":">> \o name \o <<" ", "=", "=", "=", "\n", "-", "-", "-", "\n">>
    \o Flatten([i \in 1..Len(lines) |-> lines[i] \o <<"\n">>])
    \o <<"E", "X", "I", "T", "_", "C", "O", "D", "E", ":", " ", "0", "\n", "=", "=", "=", " ", "T", "S", "I", "M", "_", "S", "E", "C", "T", "I", "O", "N", "_", "E", "N", "D", ":">> \o name \o <<" ", "=", "=", "=", "\n">>

\* the content of a file: its sections one after the other
ContentOf(sections) == Flatten([i \in 1..Len(sections) |-> SectionText(sections[i].name, sections[i].lines)])

FileSection(name, lines) == [name |-> name, lines |-> lines]

\* the policy_rules section: missing, empty, or lines of ip rule show
PolicySections ==
    { <<>>,
      <<FileSection(<<"p", "o", "l", "i", "c", "y", "_", "r", "u", "l", "e", "s">>, <<>>)>>,
      <<FileSection(<<"p", "o", "l", "i", "c", "y", "_", "r", "u", "l", "e", "s">>, <<<<"0", ":", "\t", "f", "r", "o", "m", " ", "a", "l", "l", " ", "l", "o", "o", "k", "u", "p", " ", "l", "o", "c", "a", "l">>, <<"1", "0", "0", ":", "\t", "f", "r", "o", "m", " ", "1", "0", ".", "1", ".", "0", ".", "0", "/", "2", "4", " ", "l", "o", "o", "k", "u", "p", " ", "2", "0", "0">>>>)>>,
      <<FileSection(<<"p", "o", "l", "i", "c", "y", "_", "r", "u", "l", "e", "s">>, <<<<"2", "0", "0", ":", "\t", "f", "r", "o", "m", " ", "a", "l", "l", " ", "f", "w", "m", "a", "r", "k", " ", "0", "x", "1", "f", " ", "l", "o", "o", "k", "u", "p", " ", "2", "0", "0">>>>)>>,
      <<FileSection(<<"p", "o", "l", "i", "c", "y", "_", "r", "u", "l", "e", "s">>, <<<<"3", "0", "0", ":", "\t", "f", "r", "o", "m", " ", "a", "l", "l", " ", "t", "o", " ", "1", "0", ".", "2", ".", "0", ".", "0", "/", "2", "4", " ", "i", "i", "f", " ", "e", "t", "h", "0", " ", "l", "o", "o", "k", "u", "p", " ", "2", "0", "0">>>>)>>,
      <<FileSection(<<"p", "o", "l", "i", "c", "y", "_", "r", "u", "l", "e", "s">>, <<<<"4", "0", "0", ":", "\t", "f", "r", "o", "m", " ", "1", "0", ".", "1", ".", "0", ".", "0", "/", "2", "4", " ", "d", "p", "o", "r", "t", " ", "8", "0", " ", "l", "o", "o", "k", "u", "p", " ", "2", "0", "0">>>>)>> }

\* the section of the main table, under either of its names, or none
MainSections ==
    { <<>>,
      <<FileSection(<<"r", "o", "u", "t", "i", "n", "g", "_", "t", "a", "b", "l", "e">>, <<<<"d", "e", "f", "a", "u", "l", "t", " ", "v", "i", "a", " ", "1", "0", ".", "1", ".", "1", ".", "2", "5", "4", " ", "d", "e", "v", " ", "e", "t", "h", "0">>>>)>>,
      <<FileSection(<<"r", "o", "u", "t", "i", "n", "g", "_", "t", "a", "b", "l", "e", "_", "m", "a", "i", "n">>, <<<<"d", "e", "f", "a", "u", "l", "t", " ", "v", "i", "a", " ", "1", "0", ".", "1", ".", "1", ".", "2", "5", "4", " ", "d", "e", "v", " ", "e", "t", "h", "0">>>>)>> }

\* the section of table 200: missing, empty, one line, two lines
TableSections ==
    { <<>>,
      <<FileSection(<<"r", "o", "u", "t", "i", "n", "g", "_", "t", "a", "b", "l", "e", "_", "2", "0", "0">>, <<>>)>>,
      <<FileSection(<<"r", "o", "u", "t", "i", "n", "g", "_", "t", "a", "b", "l", "e", "_", "2", "0", "0">>, <<<<"1", "0", ".", "2", ".", "0", ".", "0", "/", "2", "4", " ", "d", "e", "v", " ", "e", "t", "h", "1", " ", "s", "c", "o", "p", "e", " ", "l", "i", "n", "k">>>>)>>,
      <<FileSection(<<"r", "o", "u", "t", "i", "n", "g", "_", "t", "a", "b", "l", "e", "_", "2", "0", "0">>, <<<<"1", "0", ".", "2", ".", "0", ".", "0", "/", "2", "4", " ", "d", "e", "v", " ", "e", "t", "h", "1", " ", "s", "c", "o", "p", "e", " ", "l", "i", "n", "k">>, <<"1", "0", ".", "3", ".", "0", ".", "0", "/", "2", "4", " ", "v", "i", "a", " ", "1", "0", ".", "2", ".", "0", ".", "2", " ", "d", "e", "v", " ", "e", "t", "h", "1">>>>)>> }

\* the sections of the packet filters and the IP sets: missing, empty, filled
BlockSections ==
    { <<>>,
      <<FileSection(<<"i", "p", "t", "a", "b", "l", "e", "s", "_", "s", "a", "v", "e">>, <<>>), FileSection(<<"i", "p", "s", "e", "t", "_", "s", "a", "v", "e">>, <<<<"c", "r", "e", "a", "t", "e", " ", "s", "1", " ", "h", "a", "s", "h", ":", "i", "p">>>>)>>,
      <<FileSection(<<"i", "p", "t", "a", "b", "l", "e", "s", "_", "s", "a", "v", "e">>, <<<<"*", "f", "i", "l", "t", "e", "r">>, <<"-", "A", " ", "F", "O", "R", "W", "A", "R", "D", " ", "-", "j", " ", "D", "R", "O", "P">>, <<"C", "O", "M", "M", "I", "T">>>>),
        FileSection(<<"i", "p", "s", "e", "t", "_", "s", "a", "v", "e">>, <<>>)>> }

DirEntry(d_name, sections) == [d_name |-> d_name, sections |-> sections]

\* directories of one facts file, of every shape of its sections
OneFileDirs ==
    { <<DirEntry(<<"r", "1", "_", "f", "a", "c", "t", "s", ".", "t", "x", "t">>, p \o m \o t \o b)>> :
        p \in PolicySections, m \in MainSections, t \in TableSections, b \in BlockSections }

\* directories of several entries: two routers, a file beside its copy, a file
\* for a router called hidden-mesh, a file that is no facts file, a file without
\* a router name
ManyFileDirs ==
    { <<DirEntry(<<"r", "1", "_", "f", "a", "c", "t", "s", ".", "t", "x", "t">>, <<>>), DirEntry(<<"r", "2", "_", "f", "a", "c", "t", "s", ".", "t", "x", "t">>, <<>>)>>,
      <<DirEntry(<<"r", "1", "_", "f", "a", "c", "t", "s", ".", "t", "x", "t">>, <<>>), DirEntry(<<"r", "1", "_", "f", "a", "c", "t", "s", ".", "t", "x", "t", ".", "b", "a", "k">>, <<>>)>>,
      <<DirEntry(<<"h", "i", "d", "d", "e", "n", "-", "m", "e", "s", "h", "_", "f", "a", "c", "t", "s", ".", "t", "x", "t">>, <<>>), DirEntry(<<"r", "1", "_", "f", "a", "c", "t", "s", ".", "t", "x", "t">>, <<>>)>>,
      <<DirEntry(<<"n", "o", "t", "e", "s", ".", "t", "x", "t">>, <<>>), DirEntry(<<"r", "1", "_", "f", "a", "c", "t", "s", ".", "t", "x", "t">>, <<>>)>>,
      <<DirEntry(<<"_", "f", "a", "c", "t", "s", ".", "t", "x", "t">>, <<>>), DirEntry(<<"r", "2", "_", "f", "a", "c", "t", "s", ".", "t", "x", "t">>, <<>>)>> }

\* --limit patterns: none, or one that keeps the routers with a 1 in their name
LimitPatterns == {NULL, <<"1">>}

InitLoader ==
    /\ IdleHost
    /\ rdr = NoReader
    /\ bctx = NoBatch
    /\ calc = NoCalc
    /\ race = NoRace
    /\ \E d \in OneFileDirs \cup ManyFileDirs :
       \E f \in (IF d \in ManyFileDirs THEN LimitPatterns ELSE {NULL}) :
            ldr = [pc |-> "start", dir |-> d, filter_pattern |-> f, next |-> 1,
                   routers |-> <<>>, cmds |-> <<>>]

\* load_facts_from_env_filtered, lines 1014-1034: the directory is opened, or the
\* load fails
LoadFactsOpen ==
    /\ ldr.pc = "start"
    /\ \E opened \in BOOLEAN : ldr' = [ldr EXCEPT !.pc = IF opened THEN "readdir" ELSE "failed"]
    /\ UNCHANGED <<race, reg, rlog, ilog, lastcall, engine, rdr, bctx, calc>>

\* lines 1037-1086: one turn of the readdir loop
LoadFactsEntry ==
    /\ ldr.pc = "readdir"
    /\ ldr.next <= Len(ldr.dir)
    /\ LET entry == ldr.dir[ldr.next]
           router_name == RouterNameOf(entry.d_name)
           skipped == \/ ~StrStr(entry.d_name, <<"_", "f", "a", "c", "t", "s", ".", "t", "x", "t">>)
                      \/ router_name = <<>>
                      \/ ldr.filter_pattern # NULL /\ ~StrStr(router_name, ldr.filter_pattern)
           router == load_router_facts(ContentOf(entry.sections), router_name, entry.d_name)
       IN  ldr' = [ldr EXCEPT !.next = @ + 1,
                              !.routers = IF skipped THEN @ ELSE Append(@, router)]
    /\ UNCHANGED <<race, reg, rlog, ilog, lastcall, engine, rdr, bctx, calc>>

\* lines 1089-1094: the directory is closed and the context handed back
LoadFactsClose ==
    /\ ldr.pc = "readdir"
    /\ ldr.next > Len(ldr.dir)
    /\ ldr' = [ldr EXCEPT !.pc = "loaded"]
    /\ UNCHANGED <<race, reg, rlog, ilog, lastcall, engine, rdr, bctx, calc>>

\* hidden_mesh_setup.c lines 519-559: the rule commands of every loaded router
SynthesizeRules ==
    /\ ldr.pc = "loaded"
    /\ ldr' = [ldr EXCEPT !.pc = "done",
                          !.cmds = [r \in 1..Len(ldr.routers) |->
                                       [i \in 1..Len(ldr.routers[r].rules) |->
                                           RuleCommand(ldr.routers[r].rules[i])]]]
    /\ UNCHANGED <<race, reg, rlog, ilog, lastcall, engine, rdr, bctx, calc>>

NextLoader == LoadFactsOpen \/ LoadFactsEntry \/ LoadFactsClose \/ SynthesizeRules

SpecLoader == InitLoader /\ [][NextLoader]_vars

(***************************************************************************)
(* The subnet and the bridge name of one address on their own: an address  *)
(* text a.b.c.d/p, the subnet Phase A computes of it, the subnet Phase B   *)
(* computes of it, and the bridge names of that subnet and of a second one.*)
(***************************************************************************)
\* addresses whose octets have one, two and three digits and bits set on both
\* sides of every prefix length
CalcAddresses ==
    { <<0, 0, 0, 0>>, <<1, 23, 0, 0>>, <<10, 129, 77, 1>>, <<172, 16, 200, 85>>,
      <<192, 168, 1, 130>>, <<255, 255, 255, 255>> }

CalcPrefixes == 0..32

\* subnets next to those of the addresses: the same digits cut differently, the
\* same network under another prefix length, the widest and the narrowest
CalcOthers ==
    { <<"1", "2", ".", "3", ".", "0", ".", "0", "/", "1", "6">>, <<"1", ".", "2", "3", ".", "0", ".", "0", "/", "1", "6">>, <<"1", "0", ".", "1", "2", "8", ".", "0", ".", "0", "/", "9">>, <<"1", "0", ".", "1", "2", "8", ".", "0", ".", "0", "/", "1", "0">>,
      <<"0", ".", "0", ".", "0", ".", "0", "/", "0">>, <<"2", "5", "5", ".", "2", "5", "5", ".", "2", "5", "5", ".", "2", "5", "5", "/", "3", "2">> }

InitCalc ==
    /\ IdleHost
    /\ rdr = NoReader
    /\ bctx = NoBatch
    /\ ldr = NoLoader
    /\ race = NoRace
    /\ \E a \in CalcAddresses, p \in CalcPrefixes, other \in CalcOthers :
            calc = [pc |-> "start", a |-> a, p |-> p,
                    ip |-> InetNtoa(a) \o <<"/">> \o DecStr(p),
                    network |-> <<>>, subnet |-> <<>>, subnet_b |-> <<>>,
                    other |-> other, bridge_name |-> <<>>, other_name |-> <<>>]

\* create_hidden_infrastructure, lines 283-302: the subnet of the address
CalcPhaseA ==
    /\ calc.pc = "start"
    /\ \E mask \in ShiftOutcomes(32 - PrefixOf(calc.ip)) :
            calc' = [calc EXCEPT !.pc = "a",
                                 !.network = SubnetWith(calc.ip, mask).network,
                                 !.subnet = SubnetWith(calc.ip, mask).subnet]
    /\ UNCHANGED <<race, reg, rlog, ilog, lastcall, engine, rdr, bctx, ldr>>

\* setup_router_with_veth, lines 445-460: the subnet of the same address
CalcPhaseB ==
    /\ calc.pc = "a"
    /\ \E mask \in ShiftOutcomes(32 - PrefixOf(calc.ip)) :
            calc' = [calc EXCEPT !.pc = "b", !.subnet_b = SubnetWith(calc.ip, mask).subnet]
    /\ UNCHANGED <<race, reg, rlog, ilog, lastcall, engine, rdr, bctx, ldr>>

\* lines 335-336: the bridge names of the subnet and of the second subnet
CalcBridgeName ==
    /\ calc.pc = "b"
    /\ calc' = [calc EXCEPT !.pc = "named",
                            !.bridge_name = GenerateBridgeName(calc.subnet),
                            !.other_name = GenerateBridgeName(calc.other)]
    /\ UNCHANGED <<race, reg, rlog, ilog, lastcall, engine, rdr, bctx, ldr>>

NextCalc == CalcPhaseA \/ CalcPhaseB \/ CalcBridgeName

SpecCalc == InitCalc /\ [][NextCalc]_vars

(***************************************************************************)
(* One registry slot while one process fills it and another scans it       *)
(* (shared_registry.h lines 158-229).  The registry is a MAP_SHARED        *)
(* mapping that the processes read and write with plain loads and stores:  *)
(* there is no lock, no atomic access and no barrier, so the two run a     *)
(* data race.  The writer issues its stores in program order; a store      *)
(* that was issued reaches the memory the scanning process reads at any    *)
(* later time, in any order with the other stores.                         *)
(***************************************************************************)
RaceKinds == {"router", "interface"}

\* a slot nobody has written since the registry was zeroed, and the count beside it
FreeSlot(kind) ==
    IF kind = "router"
    THEN [router_name |-> <<>>, router_code |-> <<>>, active |-> 0, count |-> 0]
    ELSE [router_code |-> <<>>, interface_name |-> <<>>, interface_code |-> <<>>,
          active |-> 0, count |-> 0]

\* lines 176-179 and 216-221: the stores that fill a free slot, in program order
SlotStores(kind, name, n) ==
    IF kind = "router"
    THEN << [field |-> "router_name", value |-> Strncpy(name, MAX_NAME_LEN - 1)],
            [field |-> "router_code", value |-> RouterCodeOf(n)],
            [field |-> "active", value |-> 1],
            [field |-> "count", value |-> 1] >>
    ELSE << [field |-> "router_code", value |-> Strncpy(RouterCodeOf(0), MAX_CODE_LEN - 1)],
            [field |-> "interface_name", value |-> Strncpy(name, MAX_NAME_LEN - 1)],
            [field |-> "interface_code", value |-> InterfaceCodeOf(n)],
            [field |-> "active", value |-> 1],
            [field |-> "count", value |-> 1] >>

\* lines 161-162 and 205-207: what the scan tests of a slot, in order
SlotTests(kind, name) ==
    IF kind = "router"
    THEN << [field |-> "active", value |-> 1], [field |-> "router_name", value |-> name] >>
    ELSE << [field |-> "active", value |-> 1],
            [field |-> "router_code", value |-> RouterCodeOf(0)],
            [field |-> "interface_name", value |-> name] >>

\* lines 163 and 208: the field the scan returns a pointer to
CodeField(kind) == IF kind = "router" THEN "router_code" ELSE "interface_code"

RaceNames(kind) == IF kind = "router" THEN RegNames ELSE RegIfNames

InitRace ==
    /\ IdleHost
    /\ rdr = NoReader
    /\ bctx = NoBatch
    /\ ldr = NoLoader
    /\ calc = NoCalc
    /\ \E kind \in RaceKinds, n \in 0..1 :
       \E name \in RaceNames(kind), query \in RaceNames(kind) :
            race = [kind |-> kind, name |-> name, n |-> n, query |-> query,
                    mem |-> FreeSlot(kind), wpc |-> 0, pending |-> {},
                    rpc |-> 0, rst |-> "scan", code |-> NULL]

\* the writer executes its next store
RaceStore ==
    /\ race.wpc < Len(SlotStores(race.kind, race.name, race.n))
    /\ race' = [race EXCEPT !.wpc = @ + 1, !.pending = @ \cup {race.wpc + 1}]
    /\ UNCHANGED <<reg, rlog, ilog, lastcall, engine, rdr, bctx, ldr, calc>>

\* a store that was executed reaches the memory the other process reads
RaceVisible ==
    /\ \E i \in race.pending :
        LET st == SlotStores(race.kind, race.name, race.n)[i]
        IN  race' = [race EXCEPT !.mem = [@ EXCEPT ![st.field] = st.value],
                                 !.pending = @ \ {i}]
    /\ UNCHANGED <<reg, rlog, ilog, lastcall, engine, rdr, bctx, ldr, calc>>

\* the scan makes its next test of the slot: it goes on when the test holds and
\* leaves the slot when it fails
RaceTest ==
    /\ race.rst = "scan"
    /\ LET tests == SlotTests(race.kind, race.query)
           t == tests[race.rpc + 1]
       IN  race' = [race EXCEPT !.rpc = @ + 1,
                                !.rst = IF race.mem[t.field] # t.value THEN "miss"
                                        ELSE IF race.rpc + 1 = Len(tests) THEN "hit"
                                        ELSE "scan"]
    /\ UNCHANGED <<reg, rlog, ilog, lastcall, engine, rdr, bctx, ldr, calc>>

\* the scan returns the code field of the slot, and the caller reads the code
RaceReturn ==
    /\ race.rst = "hit"
    /\ race' = [race EXCEPT !.rst = "returned", !.code = race.mem[CodeField(race.kind)]]
    /\ UNCHANGED <<reg, rlog, ilog, lastcall, engine, rdr, bctx, ldr, calc>>

NextRace == RaceStore \/ RaceVisible \/ RaceTest \/ RaceReturn

SpecRace == InitRace /\ [][NextRace]_vars

(***************************************************************************)
(* C1: between two clears, every call of get-or-create router code with a  *)
(* name returns the code the first call for that name returned, and two    *)
(* different names never receive the same code.                            *)
(***************************************************************************)
C1_RouterCodesStableDistinct ==
    \A a \in rlog, b \in rlog : (a.name = b.name) <=> (a.code = b.code)

\* a name asked for twice, and a second name that was given a code too
C1_Witness ==
    /\ lastcall = [kind |-> "router", hit |-> TRUE]
    /\ \E a \in rlog, b \in rlog : b.name # a.name

(***************************************************************************)
(* C2: between two clears, the same (router code, interface name) always   *)
(* yields the same interface code, two different pairs never yield the     *)
(* same router code + interface code, and the veth names built from them   *)
(* (suffix r and suffix h) are pairwise distinct over all pairs.           *)
(***************************************************************************)
C2_InterfaceCodesStableDistinct ==
    \A a \in ilog, b \in ilog :
        LET same == a.rcode = b.rcode /\ a.ifname = b.ifname IN
        /\ same => a.icode = b.icode
        /\ ~same => /\ a.rcode \o a.icode # b.rcode \o b.icode
                    /\ \A x \in {"r", "h"}, y \in {"r", "h"} :
                           VethName(a.rcode, a.icode, x) # VethName(b.rcode, b.icode, y)
        /\ VethName(a.rcode, a.icode, "r") # VethName(a.rcode, a.icode, "h")

\* a pair asked for twice, a second interface of the same router, and the same
\* interface name on a second router
C2_Witness ==
    \E a \in ilog, b \in ilog, c \in ilog :
        /\ lastcall = [kind |-> "iface", hit |-> TRUE]
        /\ b.rcode = a.rcode /\ b.ifname # a.ifname
        /\ c.rcode # a.rcode /\ c.ifname = a.ifname

(***************************************************************************)
(* What the claims about a run speak of.                                   *)
(***************************************************************************)
\* every process of the run has ended and main returned from main()
RunOver == proc[MAIN].st = "exited" /\ \A p \in Pids : ~Running(p)

\* p is inside setup_router_with_veth
InPhaseB(p) == Running(p) /\ proc[p].pc \in {"S_enter", "RC_create", "S_ns", "I_loop", "X_apply"}

\* the address texts of the facts that are IPv4 addresses
InetTexts ==
    {ip \in UNION {UNION {{i.addresses[a].ip : a \in 1..Len(i.addresses)} :
                             i \in {Facts[r].interfaces[j] : j \in 1..Len(Facts[r].interfaces)}} :
                      r \in 1..Len(Facts)} :
        InetPton(HostPartOf(ip)).ok}

\* the network address of an IPv4 address text, octet by octet: the host bits cleared
NetworkOf(ip) ==
    LET o == InetPton(HostPartOf(ip)).o
        p == PrefixOf(ip)
        hostbits(k) == Max(0, Min(8, 8 * k - p))
    IN  [k \in 1..4 |-> o[k] - (o[k] % Pow2(hostbits(k)))]

\* the subnet of an IPv4 address text, as "a.b.c.d/p"
RuleSubnet(ip) == InetNtoa(NetworkOf(ip)) \o <<"/">> \o DecStr(PrefixOf(ip))

\* the bridge-naming rule: b, the four octets of the network in three digits each,
\* the prefix length in two
RuleBridgeName(ip) ==
    LET n == NetworkOf(ip)
        D3(x) == <<Digit(x \div 100), Digit((x \div 10) % 10), Digit(x % 10)>>
        p == PrefixOf(ip)
    IN  <<"b">> \o D3(n[1]) \o D3(n[2]) \o D3(n[3]) \o D3(n[4])
        \o <<Digit((p \div 10) % 10), Digit(p % 10)>>

BridgesIn(k, ns) == {l \in LinksIn(k, ns) : l.kind = "bridge"}

ActiveBridgeSlots(r, subnet) ==
    {i \in 0..(Len(r.bridges) - 1) :
        BridgeSlot(r, i).active = 1 /\ BridgeSlot(r, i).subnet = subnet}

(***************************************************************************)
(* C3: in parallel mode no worker child writes to the shared registry:     *)
(* whenever a running child takes a step, the registry is left as it was.  *)
(***************************************************************************)
C3_WorkersOnlyRead ==
    [][(\E c \in Children : proc[c].st = "run" /\ proc'[c] # proc[c]) => reg' = reg]_vars

(***************************************************************************)
(* C4: in parallel mode, whatever the interleaving of the children, when   *)
(* the run is over two different routers were given two different router   *)
(* codes for their veth names, and every router name is in exactly one     *)
(* active registry slot.                                                   *)
(***************************************************************************)
C4_ParallelCodesDistinct ==
    (argv.parallel /\ RunOver) =>
        /\ \A a \in rlog, b \in rlog : a.name # b.name => a.code # b.code
        /\ \A r \in 1..Len(Facts) :
              Cardinality({i \in 0..(Len(reg.routers) - 1) :
                              /\ RouterSlot(reg, i).active = 1
                              /\ RouterSlot(reg, i).router_name = Facts[r].name}) = 1

(***************************************************************************)
(* C5: when Phase A has completed without interruption, for every subnet   *)
(* of an IPv4 address of the facts the hidden namespace holds exactly one  *)
(* bridge, named by the bridge-naming rule, and the registry holds exactly *)
(* one active bridge entry for that subnet.                                *)
(***************************************************************************)
C5_OneBridgePerSubnet ==
    (At(MAIN, "A_done") /\ ~proc[MAIN].interrupted) =>
        /\ \A ip \in InetTexts :
              /\ Cardinality({l \in BridgesIn(kern, HIDDEN_NS) : l.name = RuleBridgeName(ip)}) = 1
              /\ Cardinality(ActiveBridgeSlots(reg, RuleSubnet(ip))) = 1
        /\ Cardinality(BridgesIn(kern, HIDDEN_NS)) = Cardinality({RuleSubnet(ip) : ip \in InetTexts})

\* Phase A has just completed on facts with three subnets, one of them shared by two
\* routers, and made the three bridges
C5_Witness ==
    /\ At(MAIN, "A_done") /\ ~proc[MAIN].interrupted
    /\ rawfacts = "shared"
    /\ proc[MAIN].stats.bridges_created = Cardinality({RuleSubnet(ip) : ip \in InetTexts})
    /\ Cardinality({RuleSubnet(ip) : ip \in InetTexts}) < Cardinality(InetTexts)

(***************************************************************************)
(* C6: after Phase A and Phase B have run to the end on a fresh host, with *)
(* no interruption, every interface of every router other than lo that has *)
(* an IPv4 address has a veth pair: the router end, named as the           *)
(* interface, in the router's namespace, and the hidden end in the hidden  *)
(* namespace, enslaved to the bridge of the subnet of the interface's      *)
(* first IPv4 address.                                                     *)
(***************************************************************************)
FirstInetText(iface) ==
    LET idx == {a \in 1..Len(iface.addresses) : InetPton(HostPartOf(iface.addresses[a].ip)).ok}
    IN  iface.addresses[CHOOSE a \in idx : \A b \in idx : a <= b].ip

HasInet(iface) ==
    \E a \in 1..Len(iface.addresses) : InetPton(HostPartOf(iface.addresses[a].ip)).ok

C6_EveryInterfaceWired ==
    (argv.prog = "mesh" /\ run = 1 /\ sigs = 0 /\ RunOver /\ proc[MAIN].code = 0) =>
        \A r \in 1..Len(Facts) : \A j \in 1..Len(Facts[r].interfaces) :
            LET iface == Facts[r].interfaces[j]
            IN  (iface.name # LO /\ HasInet(iface)) =>
                    \E l \in kern.links, h \in kern.links :
                        /\ l.kind = "veth" /\ l.ns = Facts[r].name /\ l.name = iface.name
                        /\ h.kind = "veth" /\ h.id = l.peer /\ h.ns = HIDDEN_NS
                        /\ h.master = RuleBridgeName(FirstInetText(iface))
                        /\ \E b \in BridgesIn(kern, HIDDEN_NS) : b.name = h.master

(***************************************************************************)
(* C7: a second run of the setup over the same facts and the same registry *)
(* leaves the kernel as the first run left it (namespaces, bridges, veth   *)
(* pairs, enslavements, addresses, routes, rules) and creates no bridge.   *)
(***************************************************************************)
C7_SecondRunChangesNothing ==
    (argv.prog = "mesh" /\ run = 2 /\ sigs = 0 /\ RunOver) =>
        /\ KernelView(kern) = snap
        /\ proc[MAIN].stats.bridges_created = 0

(***************************************************************************)
(* C8: no step of the setup of a router is taken, in the parent or in a    *)
(* child, before the parent has finished Phase A: the parent is past Phase *)
(* A, and every bridge Phase A makes is in the hidden namespace and        *)
(* recorded in the registry.                                               *)
(***************************************************************************)
PhaseAFinished ==
    /\ PhaseOf(proc[MAIN].pc) # "A"
    /\ NamespaceExists(kern, HIDDEN_NS)
    /\ \A ip \in InetTexts :
          \E i \in ActiveBridgeSlots(reg, RuleSubnet(ip)) :
              \E b \in BridgesIn(kern, HIDDEN_NS) : b.name = BridgeSlot(reg, i).bridge_name

C8_PhaseBAfterPhaseA == \A p \in Pids : InPhaseB(p) => PhaseAFinished

\* a child of the first parallel run is setting up a router while the parent forks or waits
C8_Witness ==
    /\ run = 1 /\ argv.parallel /\ InetTexts # {}
    /\ \E c \in Children : InPhaseB(c) /\ proc[c].pc = "I_loop"
    /\ Running(MAIN)

(***************************************************************************)
(* C9: for each router the steps are applied in one order.                 *)
(* As stated: over the whole router, veth creation, then moving the ends,  *)
(* then addresses, then routes, then rules, then ipset restore, then       *)
(* iptables restore.                                                       *)
(* As the programs do it: for each interface the veth pair is made before  *)
(* its ends are moved, every veth creation and every move of the router    *)
(* precedes its first address, and from there on addresses, routes, rules, *)
(* ipset restore, iptables restore follow in that order.                   *)
(***************************************************************************)
Rank(class) ==
    CASE class = "veth" -> 1 [] class = "move" -> 2 [] class = "addr" -> 3
      [] class = "route" -> 4 [] class = "rule" -> 5 [] class = "ipset" -> 6
      [] class = "iptables" -> 7

TracePairs == UNION {{<<r, a, b>> : a \in 1..(b - 1)} :
                        <<r, b>> \in UNION {{<<r, b>> : b \in 1..Len(trace[r])} : r \in DOMAIN trace}}

C9_TotalOrderPerRouter ==
    \A t \in TracePairs : Rank(trace[t[1]][t[2]].class) <= Rank(trace[t[1]][t[3]].class)

C9_OrderPerInterfaceThenRouter ==
    \A t \in TracePairs :
        LET x == trace[t[1]][t[2]]
            y == trace[t[1]][t[3]]
        IN  IF Rank(x.class) <= 2 /\ Rank(y.class) <= 2
            THEN x.iface = y.iface => Rank(x.class) <= Rank(y.class)
            ELSE Rank(x.class) <= Rank(y.class)

\* a router with two wired interfaces has gone through every one of the seven steps
C9_Witness ==
    \E r \in DOMAIN trace :
        /\ {trace[r][a].class : a \in 1..Len(trace[r])}
              = {"veth", "move", "addr", "route", "rule", "ipset", "iptables"}
        /\ Cardinality({trace[r][a].iface : a \in {b \in 1..Len(trace[r]) :
                                                      trace[r][b].class = "veth"}}) = 2

(***************************************************************************)
(* C10: when SIGINT is delivered to the main process while Phase A or      *)
(* Phase B is in progress (sequential, or parallel while it waits for its  *)
(* children), the main process ends with exit status 130.  A death by the  *)
(* default action of a second SIGINT, which a shell reports as 128 + 2, is *)
(* counted as status 130 too.                                              *)
(***************************************************************************)
C10_InterruptExits130 ==
    (argv.prog = "mesh" /\ ~Running(MAIN) /\ proc[MAIN].st # "none"
       /\ mainsig \cap {"A", "B", "wait"} # {}) =>
        \/ proc[MAIN].st = "exited" /\ proc[MAIN].code = 130
        \/ proc[MAIN].st = "killed" /\ proc[MAIN].code = SIGINT

(***************************************************************************)
(* C11: in parallel mode a worker child is terminated by the parent's      *)
(* SIGTERM only once the parent has received its second interrupt: after a *)
(* single interrupt no running child is killed.                            *)
(***************************************************************************)
C11_SigtermOnSecondInterrupt ==
    [][(\E c \in Children : /\ proc[c].st = "run"
                            /\ proc'[c].st = "killed" /\ proc'[c].code = SIGTERM)
          => sigs >= 2]_vars

(***************************************************************************)
(* C12: once the interrupt flag is set in a process, a step of that        *)
(* process at a loop boundary (the subnet and bridge loops of Phase A, the *)
(* router loops of main and of a child, the entry of the router setup, the *)
(* interface loop with the route and rule loops behind it) starts no       *)
(* router, forks no child, queues no command and changes neither the       *)
(* kernel nor the registry; and no step taken while a flag is set removes  *)
(* a namespace, a link, an address, an enslavement, a route, a rule, an IP *)
(* set, a filter table or an active registry entry.                        *)
(***************************************************************************)
LoopBoundaries == {"A_extract", "A_bridge", "B_loop", "P_fork", "C_loop", "S_enter", "I_loop"}

NothingRemoved(k, k2, r, r2) ==
    /\ k.netns \subseteq k2.netns
    /\ \A l \in k.links :
          \E m \in k2.links : /\ m.id = l.id /\ l.addrs \subseteq m.addrs
                              /\ (l.master # NoName => m.master = l.master)
    /\ k.routes \subseteq k2.routes /\ k.rules \subseteq k2.rules
    /\ k.ipsets \subseteq k2.ipsets /\ k.filters \subseteq k2.filters
    /\ \A i \in 0..(Len(r.routers) - 1) :
          RouterSlot(r, i).active = 1 => RouterSlot(r2, i) = RouterSlot(r, i)
    /\ \A i \in 0..(Len(r.bridges) - 1) :
          BridgeSlot(r, i).active = 1 => BridgeSlot(r2, i) = BridgeSlot(r, i)
    /\ \A x \in 0..(Len(r.interfaces) - 1) : \A i \in 0..(Len(IfBlock(r, x)) - 1) :
          InterfaceSlot(r, x, i).active = 1 => InterfaceSlot(r2, x, i) = InterfaceSlot(r, x, i)

CleanupEnded ==
    /\ proc[MAIN].cleanup /\ proc[MAIN].st = "exited"
    /\ proc[MAIN].euid = 0 /\ proc[MAIN].env

C13_CleanupRemovesAll ==
    CleanupEnded =>
        /\ HIDDEN_NS \notin kern.netns
        /\ \A r \in 1..Len(Facts) : Facts[r].name \notin kern.netns
        /\ reg = NoRegistry

\* the cleanup has ended on a topology of which the first router had been wired and
\* the second had not been started
C13_Witness ==
    /\ CleanupEnded
    /\ rawfacts = "shared"
    /\ \E a \in 1..Len(trace[0]) : trace[0][a].class = "move"
    /\ trace[1] = <<>>

(***************************************************************************)
(* C14: an invocation of hidden_mesh_setup that is not root, for a setup   *)
(* or with --cleanup, changes neither the kernel nor the registry in any   *)
(* of its steps and exits with status 1.                                   *)
(***************************************************************************)
C14_NotRootRefused ==
    [][(Running(MAIN) /\ proc[MAIN].euid # 0 /\ proc'[MAIN].euid # 0) =>
          /\ kern' = kern
          /\ reg' = reg
          /\ proc'[MAIN].st = "exited" => proc'[MAIN].code = 1]_vars

(***************************************************************************)
(* C15: an invocation of hidden_mesh_setup, for a setup or with --cleanup, *)
(* that finds TRACEROUTE_SIMULATOR_RAW_FACTS unset or cannot open the      *)
(* directory it names exits with status 1.                                 *)
(***************************************************************************)
C15_NoFactsExitsOne ==
    (argv.prog = "mesh" /\ ~proc[MAIN].env /\ proc[MAIN].st = "exited") => proc[MAIN].code = 1

(***************************************************************************)
(* C16: when netns_reader has exec'd, the command name is one of the six   *)
(* whitelisted names, the binary is the absolute path the whitelist gives  *)
(* for that name and no shell, the namespace name has no '/' and no '..'   *)
(* and names a namespace under /var/run/netns, and the system calls that   *)
(* succeeded are open, setns, setgid, setuid and execv, in that order.     *)
(***************************************************************************)
SixCommands == {"ip", "iptables-save", "ip6tables-save", "ipset", "ss", "netstat"}

Shells == {"/bin/sh", "/bin/bash", "/usr/bin/sh", "/usr/bin/bash", "/usr/sbin/sh"}

C16_ExecOnlyWhitelisted ==
    rdr.pc = "execed" =>
        /\ rdr.cmd \in SixCommands
        /\ \E i \in 1..Len(allowed_commands) : allowed_commands[i] = <<rdr.cmd, rdr.cmd_path>>
        /\ rdr.cmd_path \notin Shells
        /\ rdr.exec_argv[1] = rdr.cmd
        /\ \A i \in 1..Len(rdr.nsname) : rdr.nsname[i] # "/"
        /\ \A i \in 1..(Len(rdr.nsname) - 1) : <<rdr.nsname[i], rdr.nsname[i + 1]>> # <<".", ".">>
        /\ rdr.nsname \in NetnsFiles
        /\ rdr.calls = <<"open", "setns", "setgid", "setuid", "execv">>

\* ss has been exec'd with two arguments
C16_Witness == rdr.pc = "execed" /\ rdr.cmd = "ss" /\ Len(rdr.exec_argv) = 3

(***************************************************************************)
(* C17: an invocation of netns_reader whose namespace name holds '/' or    *)
(* '..' or is not present under /var/run/netns, whose command is not one   *)
(* of the six, or one of whose arguments is not allowed for the command,   *)
(* exits with status 1 and no open or setns has succeeded.                 *)
(***************************************************************************)
IsDecimal(s) == s # <<>> /\ \A i \in 1..Len(s) : IsDigit(s[i])

\* argument i of the list is allowed for the command
ArgAllowed(cmd, args, i) ==
    IF cmd = "ip"
    THEN \/ args[i] \in allowed_ip_args
         \/ i > 1 /\ args[i - 1] = W_table /\ IsDecimal(args[i])
    ELSE IF cmd = "ipset" THEN args[i] \in allowed_ipset_args
    ELSE IF cmd \in {"iptables-save", "ip6tables-save"} THEN FALSE
    ELSE TRUE

NamespaceRefused(nsname) ==
    \/ \E i \in 1..Len(nsname) : nsname[i] = "/"
    \/ \E i \in 1..(Len(nsname) - 1) : <<nsname[i], nsname[i + 1]>> = <<".", ".">>
    \/ ~StatOk(nsname)

FailsValidation ==
    \/ NamespaceRefused(rdr.nsname)
    \/ rdr.cmd \notin SixCommands
    \/ \E i \in 1..Len(rdr.args) : ~ArgAllowed(rdr.cmd, rdr.args, i)

C17_InvalidNeverEnters ==
    (rdr.pc \notin {"none", "main"} /\ rdr.nsname # W_list /\ FailsValidation) =>
        /\ rdr.calls = <<>>
        /\ rdr.pc = "exited" => rdr.code = 1

(***************************************************************************)
(* C18: for the command ip, on a namespace that is accepted, netns_reader  *)
(* accepts the argument list if and only if every argument is one of addr, *)
(* show, route, rule, link, table, -j, -json, -details or is a decimal     *)
(* table id right after a table argument.                                  *)
(***************************************************************************)
C18_IpArgsAcceptedIff ==
    (rdr.pc \notin {"none", "main"} /\ rdr.nsname # W_list /\ rdr.cmd = "ip"
        /\ rdr.err # "namespace") =>
        (rdr.err # "argument" <=> \A i \in 1..Len(rdr.args) : ArgAllowed("ip", rdr.args, i))

(***************************************************************************)
(* C19: every argument netns_reader hands to the exec'd binary is in a     *)
(* whitelisted argument set of the command; ss and netstat have no such    *)
(* set, so that no argument of theirs is in one.                           *)
(***************************************************************************)
C19_ArgsWhitelisted ==
    rdr.pc = "execed" =>
        \A i \in 2..Len(rdr.exec_argv) :
            /\ rdr.cmd \notin {"ss", "netstat"}
            /\ ArgAllowed(rdr.cmd, Tail(rdr.exec_argv), i - 1)

(***************************************************************************)
(* C20: a batch_add_command whose line would make the script longer than   *)
(* the capacity returns -1 and leaves the buffer, its recorded size and    *)
(* the lines added so far as they were; the buffer always holds the header *)
(* and the lines added, in order, and its recorded size is always smaller  *)
(* than the capacity.                                                      *)
(***************************************************************************)
C20_FailedAddKeepsScript ==
    /\ [](bctx.st = "open" =>
            /\ bctx.buffer_size < bctx.buffer_capacity
            /\ bctx.buffer_size = Len(bctx.script_buffer)
            /\ bctx.script_buffer = BatchHeader \o Flatten(bctx.added))
    /\ [][(bctx.st = "open" /\ bctx'.calls = bctx.calls + 1
            /\ bctx.buffer_size + Len(bctx'.last) > bctx.buffer_capacity) =>
              /\ bctx'.rc = -1
              /\ bctx'.script_buffer = bctx.script_buffer
              /\ bctx'.buffer_size = bctx.buffer_size
              /\ bctx'.added = bctx.added]_vars

\* an add has been refused on a buffer that holds two lines
C20_Witness == bctx.st = "open" /\ bctx.rc = -1 /\ Len(bctx.added) = 2

(***************************************************************************)
(* C21: a process that has left setup_router_with_veth holds no batch      *)
(* context, and the step that leaves it unlinks the shared-memory object   *)
(* of the context it held, whatever the commands of the batch did; two     *)
(* processes that hold a batch context at the same time hold different     *)
(* shared-memory names.                                                    *)
(***************************************************************************)
InSetup(p) == Running(p) /\ proc[p].pc \in {"I_loop", "X_apply"}

HoldsBatch(p) == Running(p) /\ proc[p].shm_path # NoName

C21_BatchFreedAndPrivate ==
    /\ [](\A p \in Pids :
            /\ (proc[p].st \in {"run", "exited"} /\ ~InSetup(p)) => proc[p].shm_path = NoName
            /\ InSetup(p) => proc[p].shm_path \in kern.shm
            /\ \A q \in Pids \ {p} :
                  (HoldsBatch(p) /\ HoldsBatch(q)) => proc[p].shm_path # proc[q].shm_path)
    /\ [][\A p \in Pids :
            (InSetup(p) /\ proc'[p].st = "run" /\ proc'[p].pc \notin {"I_loop", "X_apply"}) =>
                /\ proc'[p].shm_path = NoName
                /\ proc[p].shm_path \notin kern'.shm]_vars

\* two children hold a batch context each, one of them for its second router
C21_Witness ==
    \E p, q \in Children :
        p # q /\ HoldsBatch(p) /\ HoldsBatch(q) /\ proc[p].j % batch_size = 1

(***************************************************************************)
(* C22: when the batch of a router has returned a non-zero status, the     *)
(* setup of that router has written a warning; it has gone on to the       *)
(* restore of the IP sets and packet filters and is back in the router     *)
(* loop.                                                                   *)
(***************************************************************************)
C22_FailedBatchWarned ==
    \A p \in Pids :
        (proc[p].st \in {"run", "exited"} /\ proc[p].batch_rc # 0) =>
            /\ proc[p].warned
            /\ proc[p].shm_path = NoName

(***************************************************************************)
(* C23: when the registry has no free slot for an interface of a router,   *)
(* the engine does not build a veth name or a kernel object from the       *)
(* failed result: no link carries the text of a NULL code in its name, and *)
(* no process has died of the NULL code.                                   *)
(***************************************************************************)
C23_ExhaustionDetected ==
    /\ \A l \in kern.links : \A i \in 1..Len(l.name) : <<l.name[i]>> # NULL
    /\ \A p \in Pids : ~(proc[p].st = "killed" /\ proc[p].code = SIGSEGV)


(***************************************************************************)
(* C24: for every section of a fact file the extracted body is the text    *)
(* between the line of dashes and the first EXIT_CODE sentinel or the end  *)
(* marker, trailing white space trimmed: a section without content lines   *)
(* yields an empty body, an absent section yields no body, and no body,    *)
(* the iptables_save and ipset_save blocks included, contains the          *)
(* EXIT_CODE line.  Stated on the two blocks a loaded router keeps.        *)
(***************************************************************************)
Loaded == ldr.pc \in {"loaded", "done"}

\* the sections of the file a loaded router was read from
SectionsOf(router) ==
    ldr.dir[CHOOSE i \in 1..Len(ldr.dir) : ldr.dir[i].d_name = router.raw_facts_path].sections

HasSection(sections, name) == \E i \in 1..Len(sections) : sections[i].name = name

LinesOf(sections, name) ==
    sections[CHOOSE i \in 1..Len(sections) : sections[i].name = name].lines

\* the lines with a newline between each two
RECURSIVE JoinLines(_)
JoinLines(lines) ==
    IF lines = <<>> THEN <<>>
    ELSE IF Len(lines) = 1 THEN lines[1]
    ELSE lines[1] \o <<"\n">> \o JoinLines(Tail(lines))

BodyAsSpecified(sections, name, block) ==
    /\ ~HasSection(sections, name) => block = [raw_content |-> NULL, content_size |-> 0]
    /\ HasSection(sections, name) => block.raw_content = JoinLines(LinesOf(sections, name))
    /\ block.raw_content # NULL => ~StrStr(block.raw_content, <<"E", "X", "I", "T", "_", "C", "O", "D", "E", ":">>)

C24_SectionBodies ==
    Loaded => \A r \in 1..Len(ldr.routers) :
        /\ BodyAsSpecified(SectionsOf(ldr.routers[r]), <<"i", "p", "t", "a", "b", "l", "e", "s", "_", "s", "a", "v", "e">>, ldr.routers[r].iptables_save)
        /\ BodyAsSpecified(SectionsOf(ldr.routers[r]), <<"i", "p", "s", "e", "t", "_", "s", "a", "v", "e">>, ldr.routers[r].ipset_save)

(***************************************************************************)
(* C25: loading a fact file yields, for the section routing_table (the     *)
(* main table) and every section routing_table_<name>, one raw command per *)
(* line in file order: ip route add <line> for the main table, ip route    *)
(* add table <name> <line> for table <name>; an empty section yields no    *)
(* command.  A section routing_table_main is read as the main table too.   *)
(***************************************************************************)
RoutesAsSpecified(section) ==
    LET prefix == <<"r", "o", "u", "t", "i", "n", "g", "_", "t", "a", "b", "l", "e", "_">>
        named == Len(section.name) > Len(prefix) /\ SubSeq(section.name, 1, Len(prefix)) = prefix
        table == Drop(section.name, Len(prefix))
    IN  IF section.name = <<"r", "o", "u", "t", "i", "n", "g", "_", "t", "a", "b", "l", "e">> \/ section.name = <<"r", "o", "u", "t", "i", "n", "g", "_", "t", "a", "b", "l", "e", "_", "m", "a", "i", "n">>
        THEN [i \in 1..Len(section.lines) |-> <<"i", "p", " ", "r", "o", "u", "t", "e", " ", "a", "d", "d", " ">> \o section.lines[i]]
        ELSE IF named
        THEN [i \in 1..Len(section.lines) |->
                 <<"i", "p", " ", "r", "o", "u", "t", "e", " ", "a", "d", "d", " ", "t", "a", "b", "l", "e", " ">> \o table \o <<" ">> \o section.lines[i]]
        ELSE <<>>

C25_RouteCommands ==
    Loaded => \A r \in 1..Len(ldr.routers) :
        LET sections == SectionsOf(ldr.routers[r])
        IN  ldr.routers[r].raw_route_commands =
                Flatten([i \in 1..Len(sections) |-> RoutesAsSpecified(sections[i])])

(***************************************************************************)
(* C26: for every line of the policy_rules section, the ip rule add        *)
(* command made of the parsed line carries the line's priority and every   *)
(* selector of the line (from, to, iif, oif, fwmark, sport, dport, tos,    *)
(* lookup), and a line that says from all gives a command without a from   *)
(* clause.                                                                 *)
(***************************************************************************)
WordsOf(s) == StrTok(s, SpaceChars, <<>>, <<>>)

Selectors ==
    {<<"f", "r", "o", "m">>, <<"t", "o">>, <<"i", "i", "f">>, <<"o", "i", "f">>, <<"f", "w", "m", "a", "r", "k">>, <<"s", "p", "o", "r", "t">>, <<"d", "p", "o", "r", "t">>, <<"t", "o", "s">>, <<"l", "o", "o", "k", "u", "p">>}

\* the words of the command have the key followed by the value
Carries(cmd, key, value) ==
    \E k \in 1..(Len(WordsOf(cmd)) - 1) : WordsOf(cmd)[k] = key /\ WordsOf(cmd)[k + 1] = value

RuleCarried(line, cmd) ==
    LET words == WordsOf(line)
        from_all == \E k \in 1..(Len(words) - 1) : words[k] = <<"f", "r", "o", "m">> /\ words[k + 1] = <<"a", "l", "l">>
    IN  /\ Carries(cmd, <<"p", "r", "i", "o", "r", "i", "t", "y">>, SubSeq(words[1], 1, Len(words[1]) - 1))
        /\ \A k \in 1..(Len(words) - 1) :
               (words[k] \in Selectors /\ ~(words[k] = <<"f", "r", "o", "m">> /\ words[k + 1] = <<"a", "l", "l">>))
                   => Carries(cmd, words[k], words[k + 1])
        /\ from_all => \A k \in 1..Len(WordsOf(cmd)) : WordsOf(cmd)[k] # <<"f", "r", "o", "m">>

C26_RulesReproduced ==
    ldr.pc = "done" => \A r \in 1..Len(ldr.routers) :
        LET sections == SectionsOf(ldr.routers[r])
            lines == IF HasSection(sections, <<"p", "o", "l", "i", "c", "y", "_", "r", "u", "l", "e", "s">>)
                     THEN LinesOf(sections, <<"p", "o", "l", "i", "c", "y", "_", "r", "u", "l", "e", "s">>) ELSE <<>>
        IN  /\ Len(ldr.cmds[r]) = Len(lines)
            /\ \A i \in 1..Len(lines) : RuleCarried(lines[i], ldr.cmds[r][i])

(***************************************************************************)
(* C27: after loading any facts directory the loaded routers have pairwise *)
(* distinct names, and no router's namespace name, which is its name, is   *)
(* the name of the hidden namespace.                                       *)
(***************************************************************************)
C27_RouterNamesDistinct ==
    Loaded =>
        /\ \A r, s \in 1..Len(ldr.routers) : r # s => ldr.routers[r].name # ldr.routers[s].name
        /\ \A r \in 1..Len(ldr.routers) : ldr.routers[r].name # HIDDEN_NS


(***************************************************************************)
(* C28: for every IPv4 address a and every prefix length p in 0..32 the    *)
(* subnet Phase A and Phase B compute is a with its low 32-p bits cleared, *)
(* written network/p: 0.0.0.0/0 for p = 0, a/32 for p = 32; and Phase A    *)
(* and Phase B compute the same text for the same address.                 *)
(***************************************************************************)
\* octet k of a with the low 32-p bits of the word cleared
ClearedOctet(a, p, k) ==
    LET c == Max(0, Min(8, (32 - p) - 8 * (4 - k)))
    IN  (a[k] \div Pow2(c)) * Pow2(c)

NetworkText(a, p) ==
    InetNtoa([k \in 1..4 |-> ClearedOctet(a, p, k)]) \o <<"/">> \o DecStr(p)

C28_SubnetIsMaskedAddress ==
    /\ calc.pc \in {"a", "b", "named"} => calc.subnet = NetworkText(calc.a, calc.p)
    /\ calc.pc \in {"b", "named"} =>
            /\ calc.subnet_b = NetworkText(calc.a, calc.p)
            /\ calc.subnet_b = calc.subnet

(***************************************************************************)
(* C29: the bridge name is a function of the subnet only: for a subnet     *)
(* A.B.C.D/P it is b, the four octets zero-padded to three digits and P    *)
(* zero-padded to two digits, 15 characters that fit the 16-byte buffer;   *)
(* two different subnets never have the same bridge name.                  *)
(***************************************************************************)
C29_BridgeNameOfSubnet ==
    calc.pc = "named" =>
        /\ calc.bridge_name = <<"b">> \o PadZero(DecStr(calc.network[1]), 3)
                                      \o PadZero(DecStr(calc.network[2]), 3)
                                      \o PadZero(DecStr(calc.network[3]), 3)
                                      \o PadZero(DecStr(calc.network[4]), 3)
                                      \o PadZero(DecStr(calc.p), 2)
        /\ Len(calc.bridge_name) = 15
        /\ Len(calc.bridge_name) + 1 <= MAX_BRIDGE_NAME
        /\ (calc.bridge_name = calc.other_name) <=> (calc.subnet = calc.other)

\* the name of 1.23.0.0/16 beside the name of 12.3.0.0/16, which has the same digits
C29_Witness ==
    /\ calc.pc = "named"
    /\ calc.subnet = <<"1", ".", "2", "3", ".", "0", ".", "0", "/", "1", "6">>
    /\ calc.other = <<"1", "2", ".", "3", ".", "0", ".", "0", "/", "1", "6">>
    /\ calc.bridge_name # calc.other_name


Forked == {c \in Children : proc[c].st # "none"}

\* the first router of child c and the router after its last
SliceStart(c) == batch_size * (c - 1)

SliceEnd(c) == Min(batch_size * c, Len(Facts))

C31_ChildrenSplitRouters ==
    /\ [](\A c \in Forked :
            /\ proc[c].end = SliceEnd(c)
            /\ SliceStart(c) <= proc[c].j /\ proc[c].j <= SliceEnd(c)
            /\ proc[c].pc \in {"S_enter", "RC_create", "S_ns", "I_loop", "X_apply"}
                   => proc[c].j < SliceEnd(c))
    /\ [][\A c \in Children :
            /\ (proc[c].st = "none" /\ proc'[c].st # "none") => proc'[c].j = SliceStart(c)
            /\ (proc[c].st # "none") =>
                   \/ proc'[c].j = proc[c].j
                   \/ /\ proc'[c].j = proc[c].j + 1
                      /\ proc[c].pc \in {"S_enter", "RC_create", "S_ns", "I_loop", "X_apply"}
                      /\ proc'[c].pc = "C_loop"]_vars
    /\ []((argv.parallel /\ proc[MAIN].pc \in {"summary", "done"} /\ proc[MAIN].st # "none") =>
            /\ Cardinality(Forked) = (Len(Facts) + batch_size - 1) \div batch_size
            /\ \A c \in Forked :
                   /\ proc[c].st = "reaped"
                   /\ proc[c].j = SliceEnd(c)
                   /\ proc[c].stats.namespaces_created = SliceEnd(c) - SliceStart(c))

\* the parent at its summary after two children, the second with a single router
C31_Witness ==
    /\ At(MAIN, "summary")
    /\ Cardinality(Forked) = 2
    /\ \E c \in Forked : SliceEnd(c) - SliceStart(c) = 1


\* what a run added to the host: the router namespaces, the veth pairs, the routes and
\* the rules present now and absent when the run began
AddedNamespaces == {n \in kern.netns \ snap.netns : n # HIDDEN_NS}
VethEnds(links) == {l \in links : l.kind = "veth"}
AddedPairs == (Cardinality(VethEnds(kern.links)) - Cardinality(VethEnds(snap.links))) \div 2
AddedRoutes == kern.routes \ snap.routes
AddedRules == kern.rules \ snap.rules

(***************************************************************************)
(* C32: at the end of a run of hidden_mesh_setup, sequential or parallel,  *)
(* the counts of namespaces, interfaces, routes and rules the summary      *)
(* prints are the numbers of these objects the run, its worker children    *)
(* included, added.                                                        *)
(***************************************************************************)
C32_SummaryCountsRun ==
    (At(MAIN, "summary") /\ argv.prog = "mesh") =>
        /\ proc[MAIN].stats.namespaces_created = Cardinality(AddedNamespaces)
        /\ proc[MAIN].stats.interfaces_created = AddedPairs
        /\ proc[MAIN].stats.routes_added = Cardinality(AddedRoutes)
        /\ proc[MAIN].stats.rules_added = Cardinality(AddedRules)


\* the interface process p is about to set up, the names of its veth ends, and whether
\* 'ip link add' finds one of them in the host namespace already
NextInterface(p) == RouterOf(p).interfaces[proc[p].ifi + 1]
AtVeth(p) ==
    /\ At(p, "I_loop")
    /\ proc[p].ifi < Len(RouterOf(p).interfaces)
    /\ ~proc[p].interrupted
    /\ NextInterface(p).name # LO
VethEnd(p, suffix) ==
    VethName(RouterCodeAt(reg, proc[p]),
             GetInterfaceCodeShm(reg, RouterCodeAt(reg, proc[p]), NextInterface(p).name).code,
             suffix)
PairExists(p) == HasLink(kern, HOST_NS, VethEnd(p, "r")) \/ HasLink(kern, HOST_NS, VethEnd(p, "h"))

(***************************************************************************)
(* C33: when the veth pair exists already as Phase B creates it, the       *)
(* failure of the creation is ignored and the remaining steps for the      *)
(* interface are carried out: the rename and the MAC, address, up and MTU  *)
(* commands of the interface are queued.                                   *)
(***************************************************************************)
C33_ExistingPairCarriedOn ==
    [][\A p \in Pids :
          (AtVeth(p) /\ PairExists(p) /\ Running(p)' /\ proc'[p].ifi = proc[p].ifi + 1) =>
              proc'[p].batch = proc[p].batch
                               \o <<Cmd("rename", VethEnd(p, "r"), NextInterface(p).name, FALSE)>>
                               \o InterfaceCmds(NextInterface(p))]_vars


\* network_setup.c:120-127: the parsed routes setup_router queues an ip route add for
NetRoutes(router) ==
    LET KeepRoute(route) == route.protocol # "kernel"
    IN  SelectSeq(router.routes, KeepRoute)
\* the route lines of the routing_table sections of a file
IsRoutingSection(section) ==
    Len(section.name) >= 13 /\ SubSeq(section.name, 1, 13) = <<"r", "o", "u", "t", "i", "n", "g", "_", "t", "a", "b", "l", "e">>
RouteLines(sections) ==
    Flatten([i \in 1..Len(sections) |->
                IF IsRoutingSection(sections[i]) THEN sections[i].lines ELSE <<>>])
NotKernel(line) == ~StrStr(line, <<"p", "r", "o", "t", "o", " ", "k", "e", "r", "n", "e", "l">>)

(***************************************************************************)
(* C34: loading a fact file fills the parsed-route list of the router with *)
(* one route for every route line of its routing_table sections, and the   *)
(* secondary setup mode queues one ip route add for every such route whose *)
(* protocol is not kernel.                                                 *)
(***************************************************************************)
C34_RoutesParsed ==
    Loaded => \A r \in 1..Len(ldr.routers) :
        /\ Len(ldr.routers[r].routes) = Len(RouteLines(SectionsOf(ldr.routers[r])))
        /\ Len(NetRoutes(ldr.routers[r])) =
               Len(SelectSeq(RouteLines(SectionsOf(ldr.routers[r])), NotKernel))


(***************************************************************************)
(* The bridge calls of the registry, as create_hidden_infrastructure and   *)
(* setup_router_with_veth make them: a subnet is registered under the name *)
(* generate_bridge_name gives it, the entry is marked created when the     *)
(* bridge was made, and a subnet is looked up.                             *)
(***************************************************************************)
BridgeSubnets ==
    { <<"1", "2", ".", "3", ".", "0", ".", "0", "/", "1", "6">>, <<"1", ".", "2", "3", ".", "0", ".", "0", "/", "1", "6">>, <<"1", "0", ".", "1", "2", "8", ".", "0", ".", "0", "/", "9">>, <<"0", ".", "0", ".", "0", ".", "0", "/", "0">> }

InitBridge == InitReg

\* hidden_mesh_setup.c:336-339
CallRegisterBridge ==
    \E subnet \in BridgeSubnets :
        LET bridge_name == GenerateBridgeName(subnet)
            res == RegisterBridgeShm(reg, bridge_name, subnet)
        IN  /\ reg' = res.reg
            /\ lastcall' = [kind |-> "register", bridge_name |-> bridge_name,
                            subnet |-> subnet, idx |-> res.idx,
                            hit |-> BridgeScan(reg, bridge_name) >= 0]
            /\ UNCHANGED <<race, rdr, bctx, ldr, calc, rlog, ilog, engine>>

\* hidden_mesh_setup.c:340-351: the bridge of the entry just registered was made
CallBridgeCreated ==
    /\ lastcall.kind = "register"
    /\ lastcall.idx >= 0
    /\ BridgeSlot(reg, lastcall.idx).created = 0
    /\ reg' = [reg EXCEPT !.bridges[lastcall.idx + 1].created = 1]
    /\ lastcall' = [kind |-> "created", hit |-> FALSE]
    /\ UNCHANGED <<race, rdr, bctx, ldr, calc, rlog, ilog, engine>>

\* hidden_mesh_setup.c:463
CallFindBridge ==
    \E subnet \in BridgeSubnets :
        /\ lastcall' = [kind |-> "find", subnet |-> subnet,
                        idx |-> FindBridgeBySubnet(reg, subnet), hit |-> FALSE]
        /\ UNCHANGED <<race, rdr, bctx, ldr, calc, reg, rlog, ilog, engine>>

NextBridge == CallRegisterBridge \/ CallBridgeCreated \/ CallFindBridge \/ CallClear

SpecBridge == InitBridge /\ [][NextBridge]_vars

\* the slots holding an active entry of that name
SlotsNamed(r, bridge_name) ==
    {i \in 0..(Len(r.bridges) - 1) :
        r.bridges[i + 1].active = 1 /\ r.bridges[i + 1].bridge_name = bridge_name}

(***************************************************************************)
(* C35: registering a bridge under a name the registry has returns the     *)
(* index of that entry and changes nothing; under a new name it fills a    *)
(* free slot, with created = 0.  After a subnet was registered, looking    *)
(* the subnet up finds an active entry whose subnet is the one asked for   *)
(* and whose name is the one the bridge-naming rule gives the subnet.      *)
(***************************************************************************)
C35_RegisterThenFind ==
    /\ [][lastcall'.kind = "register" =>
            LET n == lastcall'.bridge_name
                s == lastcall'.subnet
                i == lastcall'.idx
                f == FindBridgeBySubnet(reg', s)
            IN  /\ SlotsNamed(reg, n) # {} => i \in SlotsNamed(reg, n) /\ reg' = reg
                /\ SlotsNamed(reg, n) = {} =>
                       /\ i >= 0
                       /\ BridgeSlot(reg, i).active = 0
                       /\ BridgeSlot(reg', i) =
                              [bridge_name |-> n, subnet |-> s, created |-> 0, active |-> 1]
                       /\ \A j \in 0..(Len(reg.bridges) - 1) :
                              j # i => BridgeSlot(reg', j) = BridgeSlot(reg, j)
                /\ f >= 0
                /\ BridgeSlot(reg', f).active = 1
                /\ BridgeSlot(reg', f).subnet = s
                /\ BridgeSlot(reg', f).bridge_name = GenerateBridgeName(s)]_vars
    /\ []((lastcall.kind = "find" /\ lastcall.idx >= 0) =>
            /\ BridgeSlot(reg, lastcall.idx).active = 1
            /\ BridgeSlot(reg, lastcall.idx).subnet = lastcall.subnet
            /\ BridgeSlot(reg, lastcall.idx).bridge_name = GenerateBridgeName(lastcall.subnet))
    /\ []((lastcall.kind = "find" /\ lastcall.idx < 0) =>
            SlotsNamed(reg, GenerateBridgeName(lastcall.subnet)) = {})

C35_Witness ==
    /\ lastcall.kind = "register"
    /\ lastcall.hit
    /\ lastcall.idx >= 1
    /\ BridgeSlot(reg, lastcall.idx).created = 1
    /\ BridgeSlot(reg, 0).created = 0


\* the line the claim gives a queued command
LineAsSpecified(q) ==
    (IF q[1] # NULL THEN <<"i", "p", " ", "n", "e", "t", "n", "s", " ", "e", "x", "e", "c", " ">> \o q[1] \o <<" ">> ELSE <<>>) \o q[2]
\* the queued commands that exited non-zero without || true
Stoppers == {i \in 1..Len(bctx.queued) : i \in bctx.failed /\ ~OrTrue(bctx.queued[i][2])}

(***************************************************************************)
(* C36: the script of a batch is the header (#!/bin/bash, set -e) followed *)
(* by exactly the lines added with success, in the order of the adds, each *)
(* prefixed with ip netns exec <ns> when a namespace was given; run, its   *)
(* commands execute in that order and the run stops at the first command   *)
(* that exits non-zero without || true: no later command is executed.      *)
(***************************************************************************)
C36_ScriptRunsInOrder ==
    /\ bctx.st \in {"open", "ran"} =>
           SubSeq(bctx.script_buffer, 1, bctx.buffer_size) =
               <<"#", "!", "/", "b", "i", "n", "/", "b", "a", "s", "h">> \o <<"\n">> \o <<"s", "e", "t", " ", "-", "e">> \o <<"\n">>
               \o Flatten([i \in 1..Len(bctx.queued) |->
                              LineAsSpecified(bctx.queued[i]) \o <<"\n">>])
    /\ bctx.st = "ran" =>
           /\ Len(bctx.ran) <= Len(bctx.queued)
           /\ \A i \in 1..Len(bctx.ran) : bctx.ran[i] = LineAsSpecified(bctx.queued[i])
           /\ \A i \in 1..(Len(bctx.ran) - 1) : i \notin Stoppers
           /\ Len(bctx.ran) < Len(bctx.queued) => Len(bctx.ran) \in Stoppers
           /\ Stoppers = {} => Len(bctx.ran) = Len(bctx.queued)

\* a run of three queued lines stopped at the second, after a first that failed
\* under || true
C36_Witness ==
    /\ bctx.st = "ran"
    /\ Len(bctx.queued) = 3
    /\ Len(bctx.ran) = 2
    /\ 1 \in bctx.failed
    /\ bctx.queued[2][1] # NULL


\* the bridges of the registry marked created
CreatedBridges ==
    {reg.bridges[i].bridge_name : i \in {j \in 1..Len(reg.bridges) :
                                            reg.bridges[j].active = 1 /\ reg.bridges[j].created = 1}}

(***************************************************************************)
(* C37: in every state setup and cleanup runs reach, a bridge entry of the *)
(* registry with created = 1 names a bridge that exists in the hidden-mesh *)
(* namespace; cleanup leaves no created flag set for a bridge it deleted.  *)
(***************************************************************************)
C37_CreatedBridgesExist ==
    \A b \in CreatedBridges :
        \E l \in kern.links : l.ns = HIDDEN_NS /\ l.name = b /\ l.kind = "bridge"


\* --cleanup has ended on a host that had a bridge in hidden-mesh when it began:
\* the namespace is gone and no entry is marked created
C37_Witness ==
    /\ proc[MAIN].cleanup /\ proc[MAIN].st = "exited"
    /\ \E l \in snap.links : l.ns = HIDDEN_NS /\ l.kind = "bridge"
    /\ HIDDEN_NS \notin kern.netns
    /\ CreatedBridges = {}


\* the slots of the router table that hold an active entry
ActiveRouterSlots == {s \in 0..(Len(reg.routers) - 1) : RouterSlot(reg, s).active = 1}

(***************************************************************************)
(* C38: in every state the get-or-create calls for router codes and clear  *)
(* reach, the active router entry of slot s carries the code with the      *)
(* number s, the active slots are 0 .. router_count-1, and                 *)
(* next_router_code is router_count: the block of interface slots a code's *)
(* number selects belongs to one router.                                   *)
(***************************************************************************)
C38_SlotCarriesOwnCode ==
    /\ \A s \in ActiveRouterSlots : RouterSlot(reg, s).router_code = RouterCodeOf(s)
    /\ ActiveRouterSlots = 0..(reg.router_count - 1)
    /\ reg.next_router_code = reg.router_count


(***************************************************************************)
(* C39: whenever the creation of a namespace returns success for a name,   *)
(* a namespace of exactly that name exists, whatever other namespaces      *)
(* there are: a namespace with a name that only contains the name as a     *)
(* word (hidden-mesh for a router hidden or mesh) is not taken for it.     *)
(***************************************************************************)
C39_SuccessMeansNamespace ==
    [][/\ (At(MAIN, "A_ns") /\ At(MAIN, "A_extract")') => HIDDEN_NS \in kern'.netns
       /\ \A p \in Pids :
              \/ At(p, "S_ns") /\ At(p, "I_loop")'
              \/ At(p, "N_ns") /\ At(p, "N_apply")'
              => RouterOf(p).name \in kern'.netns]_vars


(***************************************************************************)
(* C40: the argument vector netns_reader hands to exec is the command name *)
(* followed by the arguments the validation was given and accepted, in the *)
(* order of the command line, and it leaves room for the terminating NULL: *)
(* no argument of the command line reaches the command unchecked, however  *)
(* many arguments there are.                                               *)
(***************************************************************************)
C40_ExecArgvIsValidated ==
    rdr.pc \in {"enter", "drop", "exec", "execed"} =>
        LET passed == Tail(rdr.exec_argv)
        IN  /\ rdr.exec_argv[1] = rdr.cmd
            /\ Len(rdr.exec_argv) + 1 <= MAX_ARGS
            /\ Len(passed) <= Len(rdr.args)
            /\ passed = SubSeq(rdr.args, 1, Len(passed))
            /\ Len(rdr.args) <= MAX_ARGS - 2 => passed = rdr.args
            /\ validate_args(rdr.cmd, passed, Len(passed))

\* a command line with more arguments than the vector has room for was executed
C40_Witness ==
    /\ rdr.pc = "execed"
    /\ Len(rdr.args) > MAX_ARGS - 2
    /\ Len(rdr.exec_argv) = MAX_ARGS - 1

====
